---- MODULE Spec2Model ----
(***************************************************************************)
(* Model of the ride-route generator of chat-cycling: the request parser,  *)
(* the seeded random stream, the track synthesizer, the GPX document       *)
(* builder and the download link, as written in                            *)
(* src/app/components/message-list.tsx and src/app/api/gpx/route.ts.       *)
(*                                                                         *)
(* Representation.                                                         *)
(*  - A string is a sequence of character codes (charCodeAt values).        *)
(*  - A 32-bit integer is a pair <<hi, lo>> of 16-bit halves, so that the  *)
(*    wrap-around arithmetic of the random stream is exact.                *)
(*  - A real number is an integer count of thousandths (kilometres,        *)
(*    metres, degrees -> their thousandths; seconds -> milliseconds).      *)
(*    Coordinates are in millionths of a degree.                           *)
(*  - A value drawn from the random stream is its 10 leading bits, a       *)
(*    number r in 0..1023 standing for the real r/1024 in [0,1).           *)
(***************************************************************************)
EXTENDS Integers, Sequences, FiniteSets, TLC

(***************************************************************************)
(* State                                                                   *)
(***************************************************************************)
VARIABLES
  run,       \* per invocation of createGpxFile: its local variables
  now,       \* the wall clock, in ms
  parser,    \* the invocation of parseGpxRequest: its local variables
  download,  \* a reply's download link and the response to its GET
  page,      \* the chat page: its messages, isLoading, error, the send in flight
  post       \* the invocation of POST /api/chat: its request and its response

vars == <<run, now, parser, download, page, post>>

\* A value that may be null or undefined is a sequence: None, or Some(x).
None == <<>>
Some(x) == <<x>>

Max(a, b) == IF a >= b THEN a ELSE b
Min(a, b) == IF a <= b THEN a ELSE b

(***************************************************************************)
(* Strings                                                                 *)
(***************************************************************************)
\* \s of a JavaScript regular expression, within ASCII
SpaceChars == {9, 10, 11, 12, 13, 32}
IsSpace(c) == c \in SpaceChars
\* \d
DigitChars == 48..57
IsDigit(c) == c \in DigitChars
\* \p{L}, within ASCII
LetterChars == (65..90) \cup (97..122)
IsLetter(c) == c \in LetterChars

ToLowerChar(c) == IF c \in 65..90 THEN c + 32 ELSE c
\* String.prototype.toLowerCase
ToLower(s) == [i \in 1..Len(s) |-> ToLowerChar(s[i])]

\* pat occurs in s at position i (1-based)
MatchAt(s, pat, i) ==
  /\ i >= 1
  /\ i + Len(pat) - 1 <= Len(s)
  /\ \A k \in 1..Len(pat) : s[i + k - 1] = pat[k]

\* String.prototype.includes
Includes(s, pat) == \E i \in 1..(Len(s) + 1) : MatchAt(s, pat, i)

\* the positions of s, in order
Indices(s) == [k \in 1..Len(s) |-> k]

\* the first position at or after i whose character is not one of chars
SkipOver(s, i, chars) ==
  IF i > Len(s) THEN i
  ELSE CHOOSE j \in i..(Len(s) + 1) :
         /\ \A k \in i..(j - 1) : s[k] \in chars
         /\ j = Len(s) + 1 \/ s[j] \notin chars

\* the first position at or after i that holds no white space
SkipSpaces(s, i) == SkipOver(s, i, SpaceChars)

\* /(a|b|...)/i.test(s) for a set of literal alternatives, s already lower-cased
TestAny(s, alternatives) == \E pat \in alternatives : Includes(ToLower(s), pat)

Txt_road == <<114, 111, 97, 100>>  \* "road"
Txt_route == <<114, 111, 117, 116, 101>>  \* "route"
Txt_endurance == <<101, 110, 100, 117, 114, 97, 110, 99, 101>>  \* "endurance"
Txt_training == <<116, 114, 97, 105, 110, 105, 110, 103>>  \* "training"
Txt_gravel == <<103, 114, 97, 118, 101, 108>>  \* "gravel"
Txt_bikepacking == <<98, 105, 107, 101, 112, 97, 99, 107, 105, 110, 103>>  \* "bikepacking"
Txt_mtb == <<109, 116, 98>>  \* "mtb"
Txt_vtt == <<118, 116, 116>>  \* "vtt"
Txt_trail == <<116, 114, 97, 105, 108>>  \* "trail"
Txt_all_mountain == <<97, 108, 108, 45, 109, 111, 117, 110, 116, 97, 105, 110>>  \* "all-mountain"
Txt_commute == <<99, 111, 109, 109, 117, 116, 101>>  \* "commute"
Txt_city == <<99, 105, 116, 121>>  \* "city"
Txt_urban == <<117, 114, 98, 97, 110>>  \* "urban"
Txt_velo_taf == <<118, 101, 108, 111, 32, 116, 97, 102>>  \* "velo taf"

(***************************************************************************)
(* Practice heuristics                                                     *)
(***************************************************************************)
\* a speed table that looks for gravel before road
estimateAverageSpeedGravelFirst(practiceType) ==
  LET normalized == ToLower(practiceType)
  IN IF TestAny(normalized, {Txt_gravel, Txt_bikepacking}) THEN 22
     ELSE IF TestAny(normalized, {Txt_road, Txt_route, Txt_endurance, Txt_training}) THEN 28
     ELSE IF TestAny(normalized, {Txt_mtb, Txt_vtt, Txt_trail, Txt_all_mountain}) THEN 16
     ELSE IF TestAny(normalized, {Txt_commute, Txt_city, Txt_urban, Txt_velo_taf}) THEN 18
     ELSE 20

\* estimateAverageSpeed, in km/h
estimateAverageSpeed(practiceType) ==
  LET normalized == ToLower(practiceType)
  IN IF TestAny(normalized, {Txt_road, Txt_route, Txt_endurance, Txt_training}) THEN 28
     ELSE IF TestAny(normalized, {Txt_gravel, Txt_bikepacking}) THEN 22
     ELSE IF TestAny(normalized, {Txt_mtb, Txt_vtt, Txt_trail, Txt_all_mountain}) THEN 16
     ELSE IF TestAny(normalized, {Txt_commute, Txt_city, Txt_urban, Txt_velo_taf}) THEN 18
     ELSE 20

\* getPracticeRoughness, in thousandths
getPracticeRoughness(practiceType) ==
  LET normalized == ToLower(practiceType)
  IN IF TestAny(normalized, {Txt_mtb, Txt_vtt, Txt_trail, Txt_all_mountain}) THEN 1300
     ELSE IF TestAny(normalized, {Txt_gravel, Txt_bikepacking}) THEN 1100
     ELSE 800

(***************************************************************************)
(* Numeric helpers of the synthesizer                                      *)
(***************************************************************************)
Abs(x) == IF x < 0 THEN -x ELSE x
\* Math.sign
Sign(x) == IF x > 0 THEN 1 ELSE IF x < 0 THEN -1 ELSE 0

\* Math.round of a non-negative number of thousandths, as an integer
RoundMilli(x) == (x + 500) \div 1000

\* Math.sin of an angle in tenths of a degree, in thousandths: Bhaskara's
\* rational approximation on each half turn (exact at 0, 30, 90, 150, 180
\* degrees, within 0.2 percent elsewhere).
SinHalfTurn(x) ==
  LET p == x * (1800 - x)
  IN (400 * p) \div ((4050000 - p) \div 10)

MathSin(a) ==
  LET m == a % 3600
  IN IF m <= 1800 THEN SinHalfTurn(m) ELSE -SinHalfTurn(m - 1800)

\* Math.cos
MathCos(a) == MathSin(a + 900)

(***************************************************************************)
(* 32-bit arithmetic on <<hi, lo>> halves                                  *)
(***************************************************************************)
RECURSIVE BitXor(_, _, _)
BitXor(a, b, n) ==
  IF n = 0 THEN 0
  ELSE (((a % 2) + (b % 2)) % 2) + 2 * BitXor(a \div 2, b \div 2, n - 1)

RECURSIVE BitOr(_, _, _)
BitOr(a, b, n) ==
  IF n = 0 THEN 0
  ELSE (IF (a % 2) + (b % 2) > 0 THEN 1 ELSE 0) + 2 * BitOr(a \div 2, b \div 2, n - 1)

\* a ^ b
Xor32(a, b) == <<BitXor(a[1], b[1], 16), BitXor(a[2], b[2], 16)>>

\* a | k for a small non-negative constant k < 65536
OrLow32(a, k) == <<a[1], BitOr(a[2], k, 16)>>

\* (a + b) | 0
Add32(a, b) ==
  LET lo == a[2] + b[2]
  IN <<(a[1] + b[1] + (lo \div 65536)) % 65536, lo % 65536>>

\* a >>> k for 0 < k < 16
Shr32(a, k) ==
  LET p == 2 ^ k
  IN <<a[1] \div p, (a[2] \div p) + (a[1] % p) * (65536 \div p)>>

\* (x * y) mod 2^16 for 16-bit x, y
MulLow16(x, y) ==
  (x * (y % 256) + ((x * (y \div 256)) % 256) * 256) % 65536

\* floor(x * y / 2^16) for 16-bit x, y
MulHigh16(x, y) ==
  LET p0 == x * (y % 256)
      p1 == x * (y \div 256)
  IN ((p0 + (p1 % 256) * 256) \div 65536) + (p1 \div 256)

\* Math.imul(a, b)
Imul32(a, b) ==
  <<(MulHigh16(a[2], b[2]) + MulLow16(a[1], b[2]) + MulLow16(a[2], b[1])) % 65536,
    MulLow16(a[2], b[2])>>

\* The signed value of a 32-bit integer, as JavaScript shows it after "| 0".
ToInt32(a) ==
  (IF a[1] >= 32768 THEN a[1] - 65536 ELSE a[1]) * 65536 + a[2]

(***************************************************************************)
(* createDeterministicRng                                                  *)
(***************************************************************************)
\* 0x6d2b79f5, the increment of every draw
RngIncrement == <<27947, 31221>>

\* seed = (seed << 5) - seed + code; seed |= 0
SeedStep(seed, code) ==
  LET lo == 31 * seed[2] + code
  IN <<(31 * seed[1] + (lo \div 65536)) % 65536, lo % 65536>>

RECURSIVE SeedFold(_, _, _)
SeedFold(seed, text, index) ==
  IF index > Len(text) THEN seed
  ELSE SeedFold(SeedStep(seed, text[index]), text, index + 1)

\* a stream seeded from the clock as well as from the text
createClockSeededRng(seedSource) == SeedFold(<<0, now \div 1000>>, seedSource, 1)

\* The state of the stream right after createDeterministicRng(seedSource).
createDeterministicRng(seedSource) == SeedFold(<<0, 0>>, seedSource, 1)

\* seed = (seed + 0x6d2b79f5) | 0
RngAdvance(seed) == Add32(seed, RngIncrement)

\* The 32-bit output ((t ^ (t >>> 14)) >>> 0) of the draw made in state seed
\* (the state after the increment).
RngOutput(seed) ==
  LET t1 == Imul32(Xor32(seed, Shr32(seed, 15)), OrLow32(seed, 1))
      t2 == Xor32(Add32(t1, Imul32(Xor32(t1, Shr32(t1, 7)), OrLow32(t1, 61))), t1)
  IN Xor32(t2, Shr32(t2, 14))

\* a draw that divides the output as a signed number, without ">>> 0"
RngDrawSigned(seed) ==
  LET next == RngAdvance(seed)
      high == RngOutput(next)[1]
  IN [seed |-> next, value |-> (IF high >= 32768 THEN high - 65536 ELSE high) \div 64]

\* rng(): the new state and the value drawn, output / 4294967296 kept to its
\* 10 leading bits.
RngDraw(seed) ==
  LET next == RngAdvance(seed)
  IN [seed |-> next, value |-> RngOutput(next)[1] \div 64]

(***************************************************************************)
(* createTrackPoints                                                       *)
(***************************************************************************)
\* the point count with Math.floor in the place of Math.round
PointCountFloor(distanceKm) == Max(12, Min(240, (distanceKm * 6) \div 1000))

\* Math.max(12, Math.min(240, Math.round(request.distanceKm * 6)))
PointCount(distanceKm) == Max(12, Min(240, RoundMilli(distanceKm * 6)))

\* an ascent of half the points
AscentPointsHalf(pointCount) == Max(3, (pointCount * 5 + 5) \div 10)

\* Math.max(3, Math.round(pointCount * 0.4))
AscentPoints(pointCount) == Max(3, (pointCount * 4 + 5) \div 10)
\* Math.max(2, Math.round(pointCount * 0.2))
PlateauPoints(pointCount) == Max(2, (pointCount * 2 + 5) \div 10)
\* Math.max(3, pointCount - ascentPoints - plateauPoints)
DescentPoints(pointCount) ==
  Max(3, pointCount - AscentPoints(pointCount) - PlateauPoints(pointCount))

\* Math.max(600, (distanceKm / Math.max(5, estimatedSpeed)) * 3600), in ms
TotalDuration(request) ==
  LET speed == Max(5, estimateAverageSpeed(request.practiceType))
  IN Max(600000,
         (request.distanceKm \div speed) * 3600
           + ((request.distanceKm % speed) * 3600) \div speed)

\* Lines 268-291: the state of one invocation when it enters the loop.
TrackSetup(request) ==
  LET rng0 == createDeterministicRng(request.address \o request.practiceType)
      pointCount == PointCount(request.distanceKm)
      d1 == RngDraw(rng0)
      baseLat == ((d1.value * 140000) \div 1024) - 70000
      d2 == RngDraw(d1.seed)
      baseLon == ((d2.value * 360000) \div 1024) - 180000
      radiusKm == Max(1000, (request.distanceKm * 1000) \div 6283)
      radiusLat == (radiusKm * 1000) \div 111
      cosLat == MathCos(baseLat \div 100)
      sign == IF cosLat = 0 THEN 1 ELSE Sign(cosLat)
      safeCos == IF Abs(cosLat) > 100 THEN cosLat
                 ELSE 100 * (IF sign # 0 THEN sign ELSE 1)
      radiusLon == (radiusKm * 10000) \div ((111 * safeCos) \div 100)
      ascentPoints == AscentPoints(pointCount)
      d3 == RngDraw(d2.seed)
      elevation == 80000 + ((d3.value * 600000) \div 1024)
  IN [pc |-> "loop",
      request |-> request,
      seed |-> d3.seed,
      pointCount |-> pointCount,
      baseLat |-> baseLat * 1000,
      baseLon |-> baseLon * 1000,
      radiusLat |-> radiusLat,
      radiusLon |-> radiusLon,
      practiceFactor |-> getPracticeRoughness(request.practiceType),
      ascentPoints |-> ascentPoints,
      plateauPoints |-> PlateauPoints(pointCount),
      descentPoints |-> DescentPoints(pointCount),
      remainingAscent |-> request.elevationGain,
      ascentStep |-> request.elevationGain \div ascentPoints,
      elevation |-> elevation,
      baseElevation |-> elevation,
      totalDurationSeconds |-> TotalDuration(request),
      index |-> 0,
      points |-> <<>>]

\* the ascent without the forced last step: every point draws its jitter
AscentStepJitterOnly(r, seed) ==
  LET d == RngDraw(seed)
      step == r.ascentStep + (((d.value - 512) * r.ascentStep * 3) \div 10240)
      applied == Max(0, Min(step, r.remainingAscent))
  IN [seed |-> d.seed,
      elevation |-> r.elevation + applied,
      remainingAscent |-> r.remainingAscent - applied]

\* Lines 301-305: one point of the ascent. The last ascent point takes what
\* is left and draws nothing.
AscentStepOf(r, seed) ==
  LET last == r.index = r.ascentPoints - 1
      d == RngDraw(seed)
      step == IF last THEN r.remainingAscent
              ELSE r.ascentStep + (((d.value - 512) * r.ascentStep * 3) \div 10240)
      applied == Max(0, Min(step, r.remainingAscent))
  IN [seed |-> IF last THEN seed ELSE d.seed,
      elevation |-> r.elevation + applied,
      remainingAscent |-> r.remainingAscent - applied]

\* Line 307: one point of the plateau.
PlateauStepOf(r, seed) ==
  LET d == RngDraw(seed)
  IN [seed |-> d.seed,
      elevation |-> r.elevation + (((d.value - 512) * r.ascentStep * 2) \div 10240),
      remainingAscent |-> r.remainingAscent]

\* Lines 309-311: one point of the descent.
DescentStepOf(r, seed) ==
  LET d == RngDraw(seed)
      progress == ((r.index - r.ascentPoints - r.plateauPoints) * 1000)
                    \div Max(1, r.descentPoints)
      descentTarget == r.baseElevation - ((d.value * 20000) \div 1024)
      pull == 150 + ((progress * 400) \div 1000)
  IN [seed |-> d.seed,
      elevation |-> r.elevation + (((descentTarget - r.elevation) * pull) \div 1000),
      remainingAscent |-> r.remainingAscent]

\* Lines 300-312: the phase of the point at r.index.
ElevationStepOf(r, seed) ==
  IF r.index < r.ascentPoints THEN AscentStepOf(r, seed)
  ELSE IF r.index < r.ascentPoints + r.plateauPoints THEN PlateauStepOf(r, seed)
  ELSE DescentStepOf(r, seed)

\* Lines 294-315: one iteration of the loop.
LoopBody(r) ==
  LET angle == (r.index * 3600) \div r.pointCount
      d == RngDraw(r.seed)
      radiusJitter == 700 + ((d.value * 600 * r.practiceFactor) \div 1024000)
      lat == r.baseLat + ((((MathSin(angle) * r.radiusLat) \div 1000) * radiusJitter) \div 1000)
      lon == r.baseLon + ((((MathCos(angle) * r.radiusLon) \div 1000) * radiusJitter) \div 1000)
      e == ElevationStepOf(r, d.seed)
      timeOffset == (r.totalDurationSeconds \div r.pointCount) * r.index
  IN [r EXCEPT !.seed = e.seed,
               !.elevation = e.elevation,
               !.remainingAscent = e.remainingAscent,
               !.index = r.index + 1,
               !.points = Append(r.points,
                                 [lat |-> lat, lon |-> lon,
                                  ele |-> Max(0, e.elevation),
                                  timeOffset |-> timeOffset])]

\* the closure that copies the position and leaves the elevation
CloseLoopPositionOnly(points) ==
  LET firstPoint == points[1]
      n == Len(points)
  IN [points EXCEPT ![n] = [lat |-> firstPoint.lat, lon |-> firstPoint.lon,
                            ele |-> points[n].ele,
                            timeOffset |-> points[n].timeOffset]]

\* the closure that replaces the last point by the first, offset included
CloseLoopWholePoint(points) == [points EXCEPT ![Len(points)] = points[1]]

\* Lines 318-325: the last point takes the first point's position and
\* elevation, its time offset stays.
CloseLoop(points) ==
  LET firstPoint == points[1]
      n == Len(points)
  IN [points EXCEPT ![n] = [lat |-> firstPoint.lat, lon |-> firstPoint.lon,
                            ele |-> firstPoint.ele,
                            timeOffset |-> points[n].timeOffset]]

(***************************************************************************)
(* Formatting                                                              *)
(***************************************************************************)
TrimStart(s) == SubSeq(s, SkipSpaces(s, 1), Len(s))

TrimEnd(s) ==
  LET inked == {k \in 1..Len(s) : ~IsSpace(s[k])}
  IN IF inked = {} THEN <<>>
     ELSE SubSeq(s, 1, CHOOSE k \in inked : \A h \in inked : h <= k)

\* String.prototype.trim
Trim(s) == TrimEnd(TrimStart(s))

\* the decimal digits of a natural number
RECURSIVE DigitsOf(_)
DigitsOf(n) ==
  IF n < 10 THEN <<48 + n>> ELSE Append(DigitsOf(n \div 10), 48 + (n % 10))

\* the last k decimal digits of n, zero-padded
RECURSIVE PaddedDigits(_, _)
PaddedDigits(n, k) ==
  IF k = 0 THEN <<>> ELSE Append(PaddedDigits(n \div 10, k - 1), 48 + (n % 10))

\* The text of n / 10^decimals with exactly that many decimals (decimals > 0);
\* a negative zero shows its sign, as toFixed does for numbers in (-0.5, 0).
FixedText(n, decimals) ==
  (IF n < 0 THEN <<45>> ELSE <<>>)
    \o DigitsOf(Abs(n) \div (10 ^ decimals))
    \o <<46>> \o PaddedDigits(Abs(n) % (10 ^ decimals), decimals)

\* Number.prototype.toFixed(1) of a number of thousandths: to the nearest
\* tenth, ties to the larger.
ToFixed1(x) == FixedText((x + 50) \div 100, 1)

\* Number.prototype.toFixed(6) of a number of millionths
ToFixed6(x) == FixedText(x, 6)

\* formatPracticeLabel: practiceType.replace(/\s+/g, " ").trim()
RECURSIVE CollapseSpaces(_)
CollapseSpaces(s) ==
  IF s = <<>> THEN <<>>
  ELSE IF IsSpace(Head(s))
       THEN <<32>> \o CollapseSpaces(TrimStart(s))
       ELSE <<Head(s)>> \o CollapseSpaces(Tail(s))

formatPracticeLabel(practiceType) == Trim(CollapseSpaces(practiceType))

\* escapeXml
EscapeChar(c) ==
  CASE c = 38 -> <<38, 97, 109, 112, 59>>
    [] c = 60 -> <<38, 108, 116, 59>>
    [] c = 62 -> <<38, 103, 116, 59>>
    [] c = 34 -> <<38, 113, 117, 111, 116, 59>>
    [] c = 39 -> <<38, 97, 112, 111, 115, 59>>
    [] OTHER -> <<c>>

RECURSIVE escapeXml(_)
escapeXml(value) ==
  IF value = <<>> THEN <<>> ELSE EscapeChar(Head(value)) \o escapeXml(Tail(value))

(***************************************************************************)
(* buildGpxDocument                                                        *)
(***************************************************************************)
Txt_CycloCoach == <<67, 121, 99, 108, 111, 67, 111, 97, 99, 104, 32>>  \* "CycloCoach "
Txt_route_suffix == <<32, 114, 111, 117, 116, 101>>  \* " route"
Txt_km_loop == <<32, 107, 109, 32, 108, 111, 111, 112, 32, 115, 116, 97, 114, 116, 105, 110, 103, 32, 102, 114, 111, 109, 32>>  \* " km loop starting from "

\* the start time without setSeconds(0, 0)
StartTimeToTheMillisecond(clock) == clock

\* startTime = new Date(); startTime.setSeconds(0, 0): the clock reading
\* (ms) cut to the minute
StartTime(clock) == clock - (clock % 60000)

\* One <trkpt>: the texts of lat, lon and ele and the instant of <time>
\* (toISOString is one-to-one on instants).
TrkptOf(point, startTime) ==
  [lat |-> ToFixed6(point.lat),
   lon |-> ToFixed6(point.lon),
   ele |-> ToFixed1(point.ele),
   time |-> startTime + point.timeOffset]

\* The document, as the values its fixed template is filled with.
buildGpxDocument(request, points, clock) ==
  LET startTime == StartTime(clock)
      name == Txt_CycloCoach \o formatPracticeLabel(request.practiceType)
                \o Txt_route_suffix
      description == ToFixed1(request.distanceKm) \o Txt_km_loop \o request.address
  IN [name |-> escapeXml(name),
      desc |-> escapeXml(description),
      trkseg |-> [k \in 1..Len(points) |-> TrkptOf(points[k], startTime)]]

(***************************************************************************)
(* buildGpxFilename                                                        *)
(***************************************************************************)
\* .replace(/[^\p{Letter}\p{Number}]+/gu, "-"): every run of other
\* characters becomes one hyphen
RECURSIVE HyphenateRuns(_, _)
HyphenateRuns(s, inRun) ==
  IF s = <<>> THEN <<>>
  ELSE IF IsLetter(Head(s)) \/ IsDigit(Head(s))
       THEN <<Head(s)>> \o HyphenateRuns(Tail(s), FALSE)
       ELSE (IF inRun THEN <<>> ELSE <<45>>) \o HyphenateRuns(Tail(s), TRUE)

\* .replace(/-+/g, "-")
RECURSIVE CollapseHyphens(_)
CollapseHyphens(s) ==
  IF Len(s) < 2 THEN s
  ELSE IF s[1] = 45 /\ s[2] = 45 THEN CollapseHyphens(Tail(s))
       ELSE <<Head(s)>> \o CollapseHyphens(Tail(s))

\* .replace(/^-|-$/g, ""): one leading and one trailing hyphen
StripHyphens(s) ==
  LET a == IF s # <<>> /\ Head(s) = 45 THEN Tail(s) ELSE s
  IN IF a # <<>> /\ a[Len(a)] = 45 THEN SubSeq(a, 1, Len(a) - 1) ELSE a

\* slugify; normalize("NFD") leaves ASCII text as it is
slugify(value) == StripHyphens(CollapseHyphens(HyphenateRuns(ToLower(value), FALSE)))

Txt_ride == <<114, 105, 100, 101>>  \* "ride"
Txt_cyclocoach_ == <<99, 121, 99, 108, 111, 99, 111, 97, 99, 104, 45>>  \* "cyclocoach-"
Txt_km_gpx == <<107, 109, 46, 103, 112, 120>>  \* "km.gpx"

\* a filename whose distance is cut to its whole part
buildGpxFilenameFloor(request) ==
  LET slug == slugify(formatPracticeLabel(request.practiceType))
      practice == IF slug # <<>> THEN slug ELSE Txt_ride
      roundedDistance == Max(1, request.distanceKm \div 1000)
  IN Txt_cyclocoach_ \o practice \o <<45>> \o DigitsOf(roundedDistance) \o Txt_km_gpx

buildGpxFilename(request) ==
  LET slug == slugify(formatPracticeLabel(request.practiceType))
      practice == IF slug # <<>> THEN slug ELSE Txt_ride
      roundedDistance == Max(1, RoundMilli(request.distanceKm))
  IN Txt_cyclocoach_ \o practice \o <<45>> \o DigitsOf(roundedDistance) \o Txt_km_gpx

Idle == [pc |-> "idle"]

(***************************************************************************)
(* parseGpxRequest: text helpers                                           *)
(***************************************************************************)
Txt_gpx == <<103, 112, 120>>  \* "gpx"
Txt_slash_gpx == <<47, 103, 112, 120>>  \* "/gpx"
Txt_address == <<97, 100, 100, 114, 101, 115, 115>>  \* "address"
Txt_adresse == <<97, 100, 114, 101, 115, 115, 101>>  \* "adresse"
Txt_from == <<102, 114, 111, 109>>  \* "from"
Txt_depuis == <<100, 101, 112, 117, 105, 115>>  \* "depuis"
Txt_practice == <<112, 114, 97, 99, 116, 105, 99, 101>>  \* "practice"
Txt_pratique == <<112, 114, 97, 116, 105, 113, 117, 101>>  \* "pratique"
Txt_type == <<116, 121, 112, 101>>  \* "type"
Txt_discipline == <<100, 105, 115, 99, 105, 112, 108, 105, 110, 101>>  \* "discipline"
Txt_distance == <<100, 105, 115, 116, 97, 110, 99, 101>>  \* "distance"
Txt_km == <<107, 109>>  \* "km"
Txt_d_plus == <<100, 43>>  \* "d+"
Txt_elevation == <<101, 108, 101, 118, 97, 116, 105, 111, 110>>  \* "elevation"
Txt_gain == <<103, 97, 105, 110>>  \* "gain"
Txt_denivel == <<100, 101, 110, 105, 118, 101, 108>>  \* "denivel"
Txt_climb == <<99, 108, 105, 109, 98>>  \* "climb"
Txt_starting_at == <<115, 116, 97, 114, 116, 105, 110, 103, 32, 97, 116>>  \* "starting at"
Txt_departing_from == <<100, 101, 112, 97, 114, 116, 105, 110, 103, 32, 102, 114, 111, 109>>  \* "departing from"
Txt_for == <<102, 111, 114>>  \* "for"

\* String.prototype.split on single separator characters: the pieces between
\* them, empty ones included
Split(s, seps) ==
  LET cuts == SelectSeq(Indices(s), LAMBDA k : s[k] \in seps)
      first(n) == IF n = 1 THEN 1 ELSE cuts[n - 1] + 1
      last(n) == IF n = Len(cuts) + 1 THEN Len(s) ELSE cuts[n] - 1
  IN [n \in 1..(Len(cuts) + 1) |-> SubSeq(s, first(n), last(n))]

\* String.prototype.split on runs of separator characters, as /[\n;]+/: the
\* empty pieces between two adjacent separators are not pieces
SplitRuns(s, seps) ==
  LET pieces == Split(s, seps)
      kept == SelectSeq(Indices(pieces),
                        LAMBDA n : n = 1 \/ n = Len(pieces) \/ pieces[n] # <<>>)
  IN [n \in 1..Len(kept) |-> pieces[kept[n]]]

\* Array.prototype.flat of a sequence of sequences
RECURSIVE Flat(_)
Flat(ss) == IF ss = <<>> THEN <<>> ELSE Head(ss) \o Flat(Tail(ss))

\* Array.prototype.filter(Boolean) on strings: the non-empty ones
FilterNonEmpty(ss) == SelectSeq(ss, LAMBDA piece : piece # <<>>)

\* a marker test that takes any command, whatever its word
HasSlashCommand(rawMessage) == Includes(rawMessage, <<47>>)

\* rawMessage.toLowerCase().includes("gpx")
HasMarker(rawMessage) == Includes(ToLower(rawMessage), Txt_gpx)

\* .replace(/^\s*\/gpx/i, "")
StripCommand(s) ==
  LET i == SkipSpaces(s, 1)
  IN IF MatchAt(ToLower(s), Txt_slash_gpx, i)
     THEN SubSeq(s, i + Len(Txt_slash_gpx), Len(s))
     ELSE s

\* the position after the match of /gpx\s*:?/ that starts at i
MarkerEnd(s, i) ==
  LET j == SkipSpaces(s, i + Len(Txt_gpx))
  IN IF j <= Len(s) /\ s[j] = 58 THEN j + 1 ELSE j

\* .replace(/gpx\s*:?/gi, ""): no match can start inside another, so every
\* occurrence of the word is a match
RemoveMarkers(s) ==
  LET lower == ToLower(s)
      starts == {i \in 1..Len(s) : MatchAt(lower, Txt_gpx, i)}
      removed == UNION {i..(MarkerEnd(s, i) - 1) : i \in starts}
      kept == SelectSeq(Indices(s), LAMBDA k : k \notin removed)
  IN [n \in 1..Len(kept) |-> s[kept[n]]]

\* Lines 80-83
Cleaned(rawMessage) == Trim(RemoveMarkers(StripCommand(rawMessage)))

\* Lines 85-90
Segments(cleaned) ==
  LET bySemicolon == SplitRuns(cleaned, {10, 59})
      byComma == Flat([k \in 1..Len(bySemicolon) |-> Split(bySemicolon[k], {44})])
  IN FilterNonEmpty([k \in 1..Len(byComma) |-> Trim(byComma[k])])

(***************************************************************************)
(* parseDistance, parseElevation                                           *)
(***************************************************************************)
NumberChars == DigitChars \cup {44, 46}
IsNumberChar(c) == c \in NumberChars

\* the first position at or after i that holds no character of [\d,.]
SkipNumberChars(s, i) == SkipOver(s, i, NumberChars)

\* match[1] of /([\d,.]+).../: the first longest run of digits, commas and
\* periods of value, None when there is none
NumberRun(value) ==
  IF \E i \in 1..Len(value) : IsNumberChar(value[i])
  THEN LET i == CHOOSE k \in 1..Len(value) :
                  /\ IsNumberChar(value[k])
                  /\ \A h \in 1..(k - 1) : ~IsNumberChar(value[h])
       IN Some(SubSeq(value, i, SkipNumberChars(value, i) - 1))
  ELSE None

\* .replace(/,/g, ".")
CommasToPeriods(s) == [k \in 1..Len(s) |-> IF s[k] = 44 THEN 46 ELSE s[k]]

\* the first position at or after i that holds no digit
SkipDigits(s, i) == SkipOver(s, i, DigitChars)

\* the number written by the digits s[i..j-1]
RECURSIVE DigitsValue(_, _, _)
DigitsValue(s, i, j) ==
  IF j <= i THEN 0 ELSE 10 * DigitsValue(s, i, j - 1) + (s[j - 1] - 48)

\* parseFloat of a text of digits and periods, in thousandths: the longest
\* prefix "digits", "digits." , "digits.digits" or ".digits"; None (NaN) when
\* it holds no digit. Decimals beyond the third are dropped.
ParseFloat(s) ==
  LET intEnd == SkipDigits(s, 1)
      hasPoint == intEnd <= Len(s) /\ s[intEnd] = 46
      fracEnd == IF hasPoint THEN SkipDigits(s, intEnd + 1) ELSE intEnd
      fracLen == IF hasPoint THEN fracEnd - intEnd - 1 ELSE 0
      kept == Min(fracLen, 3)
      frac == DigitsValue(s, intEnd + 1, intEnd + 1 + kept) * (10 ^ (3 - kept))
  IN IF intEnd = 1 /\ fracLen = 0 THEN None
     ELSE Some(DigitsValue(s, 1, intEnd) * 1000 + frac)

\* parseDistance: None for null
parseDistance(value) ==
  LET match == NumberRun(value)
      numeric == IF match = None THEN None ELSE ParseFloat(CommasToPeriods(match[1]))
  IN IF match = None THEN None
     ELSE IF numeric = None \/ numeric[1] <= 0 THEN None
     ELSE numeric

\* parseElevation: None for null
parseElevation(value) ==
  LET match == NumberRun(value)
      numeric == IF match = None THEN None ELSE ParseFloat(CommasToPeriods(match[1]))
  IN IF match = None THEN None
     ELSE IF numeric = None \/ numeric[1] < 0 THEN None
     ELSE numeric

(***************************************************************************)
(* parseGpxRequest: the loop over the segments                             *)
(***************************************************************************)
\* a string that is neither null nor empty
Truthy(o) == o # None /\ o[1] # <<>>

\* Lines 92-95
NoFields ==
  [address |-> None, distanceKm |-> None, elevationGain |-> None, practiceType |-> None]

\* Line 98: segment.split(/[:=]/, 2).map((item) => item.trim()), the first
\* two pieces and no more
LabelAndValue(segment) ==
  LET pieces == Split(segment, {58, 61})
      kept == SubSeq(pieces, 1, Min(2, Len(pieces)))
  IN [k \in 1..Len(kept) |-> Trim(kept[k])]

\* Line 99: valuePart ? labelPart.toLowerCase() : ""
LabelOf(parts) ==
  IF Len(parts) >= 2 /\ parts[2] # <<>> THEN ToLower(parts[1]) ELSE <<>>

\* Line 100: valuePart ?? labelPart
ValueOf(parts) == IF Len(parts) >= 2 THEN parts[2] ELSE parts[1]

AddressLabels == {Txt_address, Txt_adresse, Txt_from, Txt_depuis}
PracticeLabels == {Txt_practice, Txt_pratique, Txt_type, Txt_discipline}
DistanceLabels == {Txt_distance, Txt_km}
ElevationLabels == {Txt_d_plus, Txt_elevation, Txt_gain, Txt_denivel, Txt_climb}

\* a segment with no recognized label, when the address is taken from it
\* whether or not one is set
ApplyUnlabelledOverwriting(f, value) ==
  LET parsedDistance == parseDistance(value)
      parsedElevation == parseElevation(value)
  IN IF f.distanceKm = None /\ parsedDistance # None
       THEN [f EXCEPT !.distanceKm = parsedDistance]
     ELSE IF f.elevationGain = None /\ parsedElevation # None
       THEN [f EXCEPT !.elevationGain = parsedElevation]
     ELSE [f EXCEPT !.address = Some(value)]

\* Lines 132-153: a segment with no recognized label
ApplyUnlabelled(f, value) ==
  LET parsedDistance == parseDistance(value)
      parsedElevation == parseElevation(value)
  IN IF f.distanceKm = None /\ parsedDistance # None
       THEN [f EXCEPT !.distanceKm = parsedDistance]
     ELSE IF f.elevationGain = None /\ parsedElevation # None
       THEN [f EXCEPT !.elevationGain = parsedElevation]
     ELSE IF ~Truthy(f.address) THEN [f EXCEPT !.address = Some(value)]
     ELSE IF ~Truthy(f.practiceType) THEN [f EXCEPT !.practiceType = Some(value)]
     ELSE f

\* one iteration of the loop when the label is tested for the distance and
\* the elevation before the address and the practice
ApplySegmentNumbersFirst(f, segment) ==
  LET parts == LabelAndValue(segment)
      label == LabelOf(parts)
      value == ValueOf(parts)
  IN IF value = <<>> THEN f
     ELSE IF TestAny(label, DistanceLabels)
       THEN IF parseDistance(value) # None
            THEN [f EXCEPT !.distanceKm = parseDistance(value)]
            ELSE f
     ELSE IF TestAny(label, ElevationLabels)
       THEN IF parseElevation(value) # None
            THEN [f EXCEPT !.elevationGain = parseElevation(value)]
            ELSE f
     ELSE IF TestAny(label, AddressLabels) THEN [f EXCEPT !.address = Some(value)]
     ELSE IF TestAny(label, PracticeLabels) THEN [f EXCEPT !.practiceType = Some(value)]
     ELSE ApplyUnlabelled(f, value)

\* Lines 98-153: one iteration of the loop
ApplySegment(f, segment) ==
  LET parts == LabelAndValue(segment)
      label == LabelOf(parts)
      value == ValueOf(parts)
  IN IF value = <<>> THEN f
     ELSE IF TestAny(label, AddressLabels) THEN [f EXCEPT !.address = Some(value)]
     ELSE IF TestAny(label, PracticeLabels) THEN [f EXCEPT !.practiceType = Some(value)]
     ELSE IF TestAny(label, DistanceLabels)
       THEN IF parseDistance(value) # None
            THEN [f EXCEPT !.distanceKm = parseDistance(value)]
            ELSE f
     ELSE IF TestAny(label, ElevationLabels)
       THEN IF parseElevation(value) # None
            THEN [f EXCEPT !.elevationGain = parseElevation(value)]
            ELSE f
     ELSE ApplyUnlabelled(f, value)

(***************************************************************************)
(* parseGpxRequest: the scans of the whole message                         *)
(***************************************************************************)
\* the number of white-space characters from position i on
SpaceRun(s, i) == SkipSpaces(s, i) - i

AddressProseWords == <<Txt_from, Txt_starting_at, Txt_departing_from, Txt_depuis, Txt_adresse>>
AddressStopWords == {Txt_for, Txt_distance, Txt_d_plus, Txt_elevation}

\* (?=(?:\s+for|\s+distance|\s+d\+|\s+elevation|$)) at position p
AddressLookahead(s, p) ==
  \/ p = Len(s) + 1
  \/ \E n \in 1..SpaceRun(s, p) :
       \E word \in AddressStopWords : MatchAt(ToLower(s), word, p + n)

\* ([^,\n]+?) of length len at position c, followed by the lookahead
AddressCapture(s, c, len) ==
  /\ len >= 1
  /\ c + len - 1 <= Len(s)
  /\ \A k \in c..(c + len - 1) : s[k] # 44 /\ s[k] # 10
  /\ AddressLookahead(s, c + len)

\* the ways the pattern of line 159 matches: a start i, the word w of the
\* alternation, n white-space characters, a capture of length len
AddressAttempts(s) ==
  UNION {
    LET e == iw[1] + Len(AddressProseWords[iw[2]])
    IN UNION {
         {[i |-> iw[1], w |-> iw[2], n |-> n, len |-> len] :
            len \in {l \in 1..Len(s) : AddressCapture(s, e + n, l)}} :
         n \in 1..SpaceRun(s, e)} :
    iw \in {x \in (1..Len(s)) \X (1..Len(AddressProseWords)) :
              MatchAt(ToLower(s), AddressProseWords[x[2]], x[1])}}

\* the order in which the regular-expression engine tries them: leftmost
\* start, first alternative, longest white space (greedy), shortest capture
\* (lazy)
AddressBefore(a, b) ==
  \/ a.i < b.i
  \/ a.i = b.i /\ a.w < b.w
  \/ a.i = b.i /\ a.w = b.w /\ a.n > b.n
  \/ a.i = b.i /\ a.w = b.w /\ a.n = b.n /\ a.len <= b.len

\* Lines 158-163: addressMatch[1].trim(), None when there is no match
AddressFromProse(rawMessage) ==
  LET attempts == AddressAttempts(rawMessage)
  IN IF attempts = {} THEN None
     ELSE LET a == CHOOSE x \in attempts : \A y \in attempts : AddressBefore(x, y)
              c == a.i + Len(AddressProseWords[a.w]) + a.n
          IN Some(Trim(SubSeq(rawMessage, c, c + a.len - 1)))

PracticeProseWords == <<Txt_practice, Txt_type, Txt_pratique, Txt_discipline>>

\* the first position at or after i that holds neither a letter nor white
\* space
SkipLettersAndSpaces(s, i) == SkipOver(s, i, LetterChars \cup SpaceChars)

\* the ways the pattern of line 167 matches: a start i, the word w, n1
\* white-space characters, sep = 1 when [:=] is taken, n2 white-space
\* characters, then a non-empty run of letters and white space
PracticeAttempts(s) ==
  UNION {
    LET e == iw[1] + Len(PracticeProseWords[iw[2]])
    IN UNION {
         UNION {
           {[i |-> iw[1], w |-> iw[2], n1 |-> n1, sep |-> sep, n2 |-> n2] :
              n2 \in {k \in 0..SpaceRun(s, e + n1 + sep) :
                        SkipLettersAndSpaces(s, e + n1 + sep + k) > e + n1 + sep + k}} :
           sep \in {x \in {0, 1} :
                      x = 1 => (e + n1 <= Len(s) /\ s[e + n1] \in {58, 61})}} :
         n1 \in 0..SpaceRun(s, e)} :
    iw \in {x \in (1..Len(s)) \X (1..Len(PracticeProseWords)) :
              MatchAt(ToLower(s), PracticeProseWords[x[2]], x[1])}}

\* leftmost start, first alternative, and every quantifier greedy
PracticeBefore(a, b) ==
  \/ a.i < b.i
  \/ a.i = b.i /\ a.w < b.w
  \/ a.i = b.i /\ a.w = b.w /\ a.n1 > b.n1
  \/ a.i = b.i /\ a.w = b.w /\ a.n1 = b.n1 /\ a.sep > b.sep
  \/ a.i = b.i /\ a.w = b.w /\ a.n1 = b.n1 /\ a.sep = b.sep /\ a.n2 >= b.n2

\* Lines 167-170: practiceMatch[1].trim(), None when there is no match
PracticeFromProse(rawMessage) ==
  LET attempts == PracticeAttempts(rawMessage)
  IN IF attempts = {} THEN None
     ELSE LET a == CHOOSE x \in attempts : \A y \in attempts : PracticeBefore(x, y)
              c == a.i + Len(PracticeProseWords[a.w]) + a.n1 + a.sep + a.n2
          IN Some(Trim(SubSeq(rawMessage, c, SkipLettersAndSpaces(rawMessage, c) - 1)))

\* Lines 156-171
ApplyProse(f, rawMessage) ==
  LET withAddress ==
        IF ~Truthy(f.address) /\ AddressFromProse(rawMessage) # None
        THEN [f EXCEPT !.address = AddressFromProse(rawMessage)] ELSE f
  IN IF ~Truthy(withAddress.practiceType) /\ PracticeFromProse(rawMessage) # None
     THEN [withAddress EXCEPT !.practiceType = PracticeFromProse(rawMessage)]
     ELSE withAddress

\* a result that does not wait for the practice type
ResultWithoutPractice(f) ==
  IF Truthy(f.address) /\ f.distanceKm # None /\ f.elevationGain # None
  THEN Some([address |-> f.address[1], distanceKm |-> f.distanceKm[1],
             elevationGain |-> f.elevationGain[1],
             practiceType |-> IF f.practiceType = None THEN <<>>
                              ELSE f.practiceType[1]])
  ELSE None

\* Lines 173-182: the request, or null
ResultOf(f) ==
  IF Truthy(f.address) /\ f.distanceKm # None /\ f.elevationGain # None
     /\ Truthy(f.practiceType)
  THEN Some([address |-> f.address[1], distanceKm |-> f.distanceKm[1],
             elevationGain |-> f.elevationGain[1], practiceType |-> f.practiceType[1]])
  ELSE None

RECURSIVE ApplySegments(_, _, _)
ApplySegments(f, segments, k) ==
  IF k > Len(segments) THEN f
  ELSE ApplySegments(ApplySegment(f, segments[k]), segments, k + 1)

\* parseGpxRequest as a function of the message
parseGpxRequest(rawMessage) ==
  IF rawMessage = <<>> \/ ~HasMarker(rawMessage) THEN None
  ELSE ResultOf(ApplyProse(ApplySegments(NoFields, Segments(Cleaned(rawMessage)), 1),
                           rawMessage))

(***************************************************************************)
(* buildGpxReply: the query of the download link                           *)
(***************************************************************************)
Txt_distanceKm == <<100, 105, 115, 116, 97, 110, 99, 101, 75, 109>>  \* "distanceKm"
Txt_elevationGain == <<101, 108, 101, 118, 97, 116, 105, 111, 110, 71, 97, 105, 110>>  \* "elevationGain"
Txt_practiceType == <<112, 114, 97, 99, 116, 105, 99, 101, 84, 121, 112, 101>>  \* "practiceType"

\* Number.prototype.toString of a number of thousandths: the digits of the
\* whole part, then the decimals up to the last that is not 0
NumberToString(n) ==
  LET decimals == PaddedDigits(Abs(n) % 1000, 3)
      last == CHOOSE k \in 0..3 :
                /\ k = 0 \/ decimals[k] # 48
                /\ \A h \in (k + 1)..3 : decimals[h] = 48
  IN (IF n < 0 THEN <<45>> ELSE <<>>)
       \o DigitsOf(Abs(n) \div 1000)
       \o (IF last = 0 THEN <<>> ELSE <<46>> \o SubSeq(decimals, 1, last))

\* the characters URLSearchParams writes as they are: letters, digits, * - . _
IsFormSafe(c) == IsDigit(c) \/ IsLetter(c) \/ c \in {42, 45, 46, 95}

HexDigit(n) == IF n < 10 THEN 48 + n ELSE 55 + n

FormEncodeChar(c) ==
  IF IsFormSafe(c) THEN <<c>>
  ELSE IF c = 32 THEN <<43>>
  ELSE <<37, HexDigit(c \div 16), HexDigit(c % 16)>>

\* a link written without encoding its values
NoFormEncode(s) == s

\* URLSearchParams.prototype.toString on one value
FormEncode(s) == Flat([k \in 1..Len(s) |-> FormEncodeChar(s[k])])

\* Lines 189-195: params.toString()
DownloadQuery(request) ==
  Txt_address \o <<61>> \o FormEncode(request.address)
    \o <<38>> \o Txt_distanceKm \o <<61>> \o FormEncode(NumberToString(request.distanceKm))
    \o <<38>> \o Txt_elevationGain \o <<61>>
    \o FormEncode(NumberToString(request.elevationGain))
    \o <<38>> \o Txt_practiceType \o <<61>> \o FormEncode(request.practiceType)

(***************************************************************************)
(* buildGpxReply: the summary of a request                                 *)
(***************************************************************************)
\* line 186: distanceKm / estimateAverageSpeed(practiceType), in millionths
\* of an hour
EstimatedHours(request) ==
  (request.distanceKm * 1000) \div estimateAverageSpeed(request.practiceType)

\* Math.round(hours * 60) of a number of millionths of an hour
TotalMinutes(hours) ==
  (hours \div 1000000) * 60 + ((hours % 1000000) * 60 + 500000) \div 1000000

\* mins.toString().padStart(2, "0")
PadStart2(text) == IF Len(text) < 2 THEN <<48>> \o text ELSE text

Txt_h00 == <<104, 48, 48>>  \* "h00"
Txt_min == <<32, 109, 105, 110>>  \* " min"

\* a duration whose minutes are written as they are
formatDurationUnpadded(hours) ==
  IF hours <= 0 THEN None
  ELSE LET totalMinutes == TotalMinutes(hours)
           hrs == totalMinutes \div 60
           mins == totalMinutes % 60
       IN IF hrs # 0 /\ mins # 0 THEN Some(DigitsOf(hrs) \o <<104>> \o DigitsOf(mins))
          ELSE IF hrs # 0 THEN Some(DigitsOf(hrs) \o Txt_h00)
          ELSE Some(DigitsOf(mins) \o Txt_min)

\* formatDuration: null, or the text of the duration
formatDuration(hours) ==
  IF hours <= 0 THEN None
  ELSE LET totalMinutes == TotalMinutes(hours)
           hrs == totalMinutes \div 60
           mins == totalMinutes % 60
       IN IF hrs # 0 /\ mins # 0
          THEN Some(DigitsOf(hrs) \o <<104>> \o PadStart2(DigitsOf(mins)))
          ELSE IF hrs # 0 THEN Some(DigitsOf(hrs) \o Txt_h00)
          ELSE Some(DigitsOf(mins) \o Txt_min)

Txt_Here_is == <<72, 101, 114, 101, 32, 105, 115, 32, 97, 32, 42, 42>>  \* "Here is a **"
\* "** route starting from **"
Txt_route_starting ==
  <<42, 42, 32, 114, 111, 117, 116, 101, 32, 115, 116, 97, 114, 116, 105,
    110, 103, 32, 102, 114, 111, 109, 32, 42, 42>>
Txt_stars_period == <<42, 42, 46>>  \* "**."
Txt_Distance_line == <<45, 32, 68, 105, 115, 116, 97, 110, 99, 101, 58, 32>>  \* "- Distance: "
Txt_km_unit == <<32, 107, 109>>  \* " km"
\* "- Elevation gain: "
Txt_Elevation_line ==
  <<45, 32, 69, 108, 101, 118, 97, 116, 105, 111, 110, 32, 103, 97, 105, 110,
    58, 32>>
Txt_m_unit == <<32, 109>>  \* " m"
\* "- Estimated moving time: "
Txt_Duration_line ==
  <<45, 32, 69, 115, 116, 105, 109, 97, 116, 101, 100, 32, 109, 111, 118,
    105, 110, 103, 32, 116, 105, 109, 101, 58, 32>>
\* "[⬇️ Download the GPX file]("
Txt_Download_link ==
  <<91, 11015, 65039, 32, 68, 111, 119, 110, 108, 111, 97, 100, 32, 116, 104,
    101, 32, 71, 80, 88, 32, 102, 105, 108, 101, 93, 40>>
Txt_api_gpx == <<47, 97, 112, 105, 47, 103, 112, 120, 63>>  \* "/api/gpx?"
Txt_Download_title == <<32, 34, 68, 111, 119, 110, 108, 111, 97, 100, 32>>  \* space, quote, Download, space
Txt_link_end == <<34, 41>>  \* quote, closing parenthesis
\* "Import this GPX into your preferred navigation app and enjoy the ride!"
Txt_Import ==
  <<73, 109, 112, 111, 114, 116, 32, 116, 104, 105, 115, 32, 71, 80, 88, 32,
    105, 110, 116, 111, 32, 121, 111, 117, 114, 32, 112, 114, 101, 102, 101,
    114, 114, 101, 100, 32, 110, 97, 118, 105, 103, 97, 116, 105, 111, 110,
    32, 97, 112, 112, 32, 97, 110, 100, 32, 101, 110, 106, 111, 121, 32, 116,
    104, 101, 32, 114, 105, 100, 101, 33>>

\* Array.prototype.join("\n\n")
JoinLines(lines) ==
  Flat([k \in 1..Len(lines) |->
          IF k = 1 THEN lines[k] ELSE <<10, 10>> \o lines[k]])

\* the lines of the message before filter(Boolean): the line of the duration
\* is null (here empty) when formatDuration returns null
ReplyLines(request) ==
  LET formattedDuration == formatDuration(EstimatedHours(request))
      filename == buildGpxFilename(request)
      downloadUrl == Txt_api_gpx \o DownloadQuery(request)
  IN << Txt_Here_is \o formatPracticeLabel(request.practiceType)
          \o Txt_route_starting \o request.address \o Txt_stars_period,
        Txt_Distance_line \o ToFixed1(request.distanceKm) \o Txt_km_unit,
        Txt_Elevation_line \o DigitsOf(RoundMilli(request.elevationGain)) \o Txt_m_unit,
        IF formattedDuration # None
          THEN Txt_Duration_line \o formattedDuration[1] ELSE <<>>,
        Txt_Download_link \o downloadUrl \o Txt_Download_title \o filename
          \o Txt_link_end,
        Txt_Import >>

buildGpxReply(request) == [message |-> JoinLines(FilterNonEmpty(ReplyLines(request)))]

(***************************************************************************)
(* GET /api/gpx: the query decoded and validated                           *)
(***************************************************************************)
IsHexDigit(c) == IsDigit(c) \/ c \in 65..70 \/ c \in 97..102

HexValue(c) == IF IsDigit(c) THEN c - 48 ELSE IF c \in 65..70 THEN c - 55 ELSE c - 87

\* a name or a value of the query, decoded: + is a space and %HH is a byte
FormDecode(s) ==
  LET starts == {i \in 1..(Len(s) - 2) :
                   s[i] = 37 /\ IsHexDigit(s[i + 1]) /\ IsHexDigit(s[i + 2])}
      inside == UNION {{i + 1, i + 2} : i \in starts}
      kept == SelectSeq(Indices(s), LAMBDA k : k \notin inside)
  IN [n \in 1..Len(kept) |->
       LET k == kept[n]
       IN IF k \in starts THEN 16 * HexValue(s[k + 1]) + HexValue(s[k + 2])
          ELSE IF s[k] = 43 THEN 32
          ELSE s[k]]

\* url.searchParams: the name-value pairs of the query, in order
SearchParams(query) ==
  LET sequences == FilterNonEmpty(Split(query, {38}))
  IN [n \in 1..Len(sequences) |->
       LET pair == sequences[n]
           equals == {k \in 1..Len(pair) : pair[k] = 61}
           cut == IF equals = {} THEN Len(pair) + 1
                  ELSE CHOOSE k \in equals : \A h \in equals : k <= h
       IN [name |-> FormDecode(SubSeq(pair, 1, cut - 1)),
           value |-> FormDecode(SubSeq(pair, cut + 1, Len(pair)))]]

\* URLSearchParams.prototype.get: the first value of that name, or null
SearchParamsGet(params, name) ==
  LET named == {n \in 1..Len(params) : params[n].name = name}
  IN IF named = {} THEN None
     ELSE Some(params[CHOOSE n \in named : \A h \in named : n <= h].value)

\* Number.parseFloat, in thousandths: leading white space, a sign, digits
\* and a period; None for NaN
NumberParseFloat(s) ==
  LET i == SkipSpaces(s, 1)
      signed == i <= Len(s) /\ s[i] \in {43, 45}
      magnitude == ParseFloat(SubSeq(s, IF signed THEN i + 1 ELSE i, Len(s)))
  IN IF magnitude = None THEN None
     ELSE IF signed /\ s[i] = 45 THEN Some(0 - magnitude[1])
     ELSE magnitude

\* parseNumberParam
parseNumberParam(value, allowZero) ==
  IF ~Truthy(value) THEN None
  ELSE LET parsed == NumberParseFloat(value[1])
       IN IF parsed = None \/ parsed[1] < 0 \/ (~allowZero /\ parsed[1] = 0)
          THEN None
          ELSE parsed

\* GET, lines 22-44: the status, and the request the file is made from
Validated(query) ==
  LET params == SearchParams(query)
      address == SearchParamsGet(params, Txt_address)
      practiceType == SearchParamsGet(params, Txt_practiceType)
      distanceKm == parseNumberParam(SearchParamsGet(params, Txt_distanceKm), FALSE)
      elevationGain == parseNumberParam(SearchParamsGet(params, Txt_elevationGain), TRUE)
  IN IF ~Truthy(address) \/ ~Truthy(practiceType)
        \/ distanceKm = None \/ elevationGain = None
     THEN [status |-> 400, gpxRequest |-> None]
     ELSE [status |-> 200,
           gpxRequest |-> Some([address |-> address[1],
                                practiceType |-> practiceType[1],
                                distanceKm |-> distanceKm[1],
                                elevationGain |-> elevationGain[1]])]

(***************************************************************************)
(* POST /api/chat: normalizeGpxArgs                                        *)
(***************************************************************************)
\* JSON values: a string, a number in thousandths, or no value
Str(text) == [type |-> "string", text |-> text]
Num(value) == [type |-> "number", value |-> value]
Undefined == [type |-> "undefined"]

\* coerceNumber
coerceNumber(value) ==
  IF value.type = "number" THEN Some(value.value)
  ELSE IF value.type = "string" /\ Trim(value.text) # <<>>
       THEN NumberParseFloat(value.text)
  ELSE None

\* normalizeGpxArgs: the request, or None for { error }
normalizeGpxArgs(value) ==
  LET address == value.start_address
      practiceType == value.practice_type
      normalizedDistance == coerceNumber(value.distance_km)
      normalizedElevation == coerceNumber(value.elevation_gain_m)
  IN IF address.type # "string" \/ Trim(address.text) = <<>> THEN None
     ELSE IF normalizedDistance = None \/ normalizedDistance[1] <= 0 THEN None
     ELSE IF normalizedElevation = None \/ normalizedElevation[1] < 0 THEN None
     ELSE IF practiceType.type # "string" \/ Trim(practiceType.text) = <<>> THEN None
     ELSE Some([address |-> Trim(address.text),
                distanceKm |-> normalizedDistance[1],
                elevationGain |-> normalizedElevation[1],
                practiceType |-> Trim(practiceType.text)])

(***************************************************************************)
(* Requests the synthesizer is run on                                      *)
(***************************************************************************)
Txt_Lyon == <<76, 121, 111, 110>>  \* "Lyon"
Txt_Downing == <<49, 48, 32, 68, 111, 119, 110, 105, 110, 103, 32, 83, 116, 114, 101, 101, 116>>  \* "10 Downing Street"

SynthAddresses == {Txt_Lyon, Txt_Downing}
SynthPractices == {Txt_road, Txt_gravel, Txt_mtb}
\* 0.5, 2.75, 20, 40 and 45.5 km: 3, 16.5, 120, 240 and 273 before rounding
\* and clamping
SynthDistances == {500, 2750, 20000, 40000, 45500}
\* 0 m, 123.456 m, 800 m
SynthGains == {0, 123456, 800000}

SynthRequests ==
  [address : SynthAddresses, distanceKm : SynthDistances,
   elevationGain : SynthGains, practiceType : SynthPractices]

(***************************************************************************)
(* Actions: one invocation of createGpxFile                                 *)
(***************************************************************************)
\* createGpxFile is called: createTrackPoints runs up to its loop
Begin(i, request) ==
  /\ run[i].pc = "idle"
  /\ run' = [run EXCEPT ![i] = TrackSetup(request)]
  /\ UNCHANGED <<now, parser, download, page, post>>

\* one iteration when the generator is one object that every invocation
\* draws from: the stream goes on from wherever the last draw left it
IterateSharedRng(i) ==
  LET shared == IF run[1].pc = "loop" THEN run[1].seed ELSE run[i].seed
      next == LoopBody([run[i] EXCEPT !.seed = shared])
  IN /\ run[i].pc = "loop"
     /\ run[i].index < run[i].pointCount
     /\ run' = [j \in DOMAIN run |->
                  IF j = i THEN next
                  ELSE IF j = 1 /\ run[1].pc = "loop"
                       THEN [run[1] EXCEPT !.seed = next.seed]
                  ELSE run[j]]
     /\ UNCHANGED <<now, parser, download, page, post>>

\* one iteration
Iterate(i) ==
  /\ run[i].pc = "loop"
  /\ run[i].index < run[i].pointCount
  /\ run' = [run EXCEPT ![i] = LoopBody(run[i])]
  /\ UNCHANGED <<now, parser, download, page, post>>

\* loop exit, closure, createTrackPoints returns
Return(i) ==
  /\ run[i].pc = "loop"
  /\ run[i].index >= run[i].pointCount
  /\ run' = [run EXCEPT ![i] = [run[i] EXCEPT !.pc = "returned",
                                              !.points = CloseLoop(run[i].points)]]
  /\ UNCHANGED <<now, parser, download, page, post>>

(***************************************************************************)
(* SpecSynth: createTrackPoints on every request of SynthRequests          *)
(***************************************************************************)
InitSynth ==
  /\ run = [i \in {1} |-> Idle]
  /\ now = 0
  /\ parser = Idle
  /\ download = Idle
  /\ page = Idle
  /\ post = Idle

NextSynth ==
  \/ \E request \in SynthRequests : Begin(1, request)
  \/ Iterate(1)
  \/ Return(1)

SpecSynth == InitSynth /\ [][NextSynth]_vars

(***************************************************************************)
(* SpecFile: two createGpxFile calls, interleaved, under a running clock   *)
(***************************************************************************)
\* the last instant the clock of the model reaches, in ms
MaxClock == 60000

\* buildGpxDocument reads the clock; createGpxFile returns the file
Build(i) ==
  /\ run[i].pc = "returned"
  /\ run' = [run EXCEPT ![i] =
       [pc |-> "built",
        request |-> run[i].request,
        points |-> run[i].points,
        builtAt |-> now,
        filename |-> buildGpxFilename(run[i].request),
        content |-> buildGpxDocument(run[i].request, run[i].points, now)]]
  /\ UNCHANGED <<now, parser, download, page, post>>

\* half a minute passes
Tick ==
  /\ now < MaxClock
  /\ now' = now + 30000
  /\ UNCHANGED <<run, parser, download, page, post>>

\* 2 km with 300 m of gain: 12 points; 2.5 km without gain: 15 points
FileRequests ==
  {[address |-> Txt_Lyon, distanceKm |-> 2000,
    elevationGain |-> 300000, practiceType |-> Txt_road],
   [address |-> Txt_Downing, distanceKm |-> 2500,
    elevationGain |-> 0, practiceType |-> Txt_gravel]}

InitFile ==
  /\ run = [i \in {1, 2} |-> Idle]
  /\ now = 0
  /\ parser = Idle
  /\ download = Idle
  /\ page = Idle
  /\ post = Idle

NextFile ==
  \/ \E i \in {1, 2} : \E request \in FileRequests : Begin(i, request)
  \/ \E i \in {1, 2} : Iterate(i)
  \/ \E i \in {1, 2} : Return(i)
  \/ \E i \in {1, 2} : Build(i)
  \/ Tick

SpecFile == InitFile /\ [][NextFile]_vars

(***************************************************************************)
(* Messages the parser is run on                                           *)
(***************************************************************************)
Txt_gpx_command == <<47, 103, 112, 120, 32>>  \* "/gpx "
Txt_GPX_command == <<47, 71, 80, 88, 32>>  \* "/GPX "
Txt_route_command == <<47, 114, 111, 117, 116, 101, 32>>  \* "/route "
Txt_label_address == <<97, 100, 100, 114, 101, 115, 115, 58, 32>>  \* "address: "
Txt_label_distance == <<59, 32, 100, 105, 115, 116, 97, 110, 99, 101, 58, 32>>  \* "; distance: "
Txt_label_elevation == <<59, 32, 101, 108, 101, 118, 97, 116, 105, 111, 110, 58, 32>>  \* "; elevation: "
Txt_label_practice == <<59, 32, 112, 114, 97, 99, 116, 105, 99, 101, 58, 32>>  \* "; practice: "
\* "10 Downing Street, London"
Txt_Downing_London ==
  <<49, 48, 32, 68, 111, 119, 110, 105, 110, 103, 32, 83, 116, 114, 101, 101,
    116, 44, 32, 76, 111, 110, 100, 111, 110>>
Txt_Quai == <<81, 117, 97, 105, 32, 53, 37, 32, 38, 32, 67, 111, 43>>  \* "Quai 5% & Co+"
Txt_60_km == <<54, 48, 32, 107, 109>>  \* "60 km"
Txt_45_5_km == <<52, 53, 44, 53, 32, 107, 109>>  \* "45,5 km"
Txt_800_m == <<56, 48, 48, 32, 109>>  \* "800 m"
Txt_0_m == <<48, 32, 109>>  \* "0 m"
Txt_minus_5_m == <<45, 53, 32, 109>>  \* "-5 m"
Txt_gpx_word == <<103, 112, 120, 32>>  \* "gpx "
Txt_semicolon == <<59, 32>>  \* "; "
Txt_f_address == <<97, 100, 100, 114, 101, 115, 115, 58, 32, 76, 121, 111, 110>>  \* "address: Lyon"
\* "from Lyon for 45 km"
Txt_f_prose ==
  <<102, 114, 111, 109, 32, 76, 121, 111, 110, 32, 102, 111, 114, 32, 52, 53,
    32, 107, 109>>
Txt_f_type == <<116, 121, 112, 101, 32, 103, 114, 97, 118, 101, 108>>  \* "type gravel"
Txt_f_practice == <<112, 114, 97, 99, 116, 105, 99, 101, 58, 32, 114, 111, 97, 100>>  \* "practice: road"

\* the command as the input box and the empty-list hint write it: the four
\* labelled fragments, separated by semicolons, after a leading word
Command(marker, address, distance, elevation, practice) ==
  marker \o Txt_label_address \o address \o Txt_label_distance \o distance
    \o Txt_label_elevation \o elevation \o Txt_label_practice \o practice

\* the leading words: the command in either case, another command, none
CommandMarkers == {Txt_gpx_command, Txt_GPX_command, Txt_route_command, <<>>}
CommandAddresses == {Txt_Lyon, Txt_Downing, Txt_Downing_London, Txt_Quai}
\* a distance or an elevation as it is written, with the number it writes in
\* thousandths
CommandDistances ==
  {[text |-> Txt_60_km, value |-> 60000], [text |-> Txt_45_5_km, value |-> 45500]}
CommandElevations ==
  {[text |-> Txt_800_m, value |-> 800000], [text |-> Txt_0_m, value |-> 0],
   [text |-> Txt_minus_5_m, value |-> -5000]}
CommandPractices == {Txt_road, Txt_gravel}

Commands ==
  {Command(marker, address, distance.text, elevation.text, practice) :
     marker \in CommandMarkers, address \in CommandAddresses,
     distance \in CommandDistances, elevation \in CommandElevations,
     practice \in CommandPractices}

\* the most fragments a free message is made of
MaxFragments == 3

Fragments ==
  {Txt_f_address, Txt_f_prose, Txt_800_m, Txt_f_type, Txt_f_practice, Txt_60_km}

RECURSIVE Joined(_)
Joined(fragments) ==
  IF fragments = <<>> THEN <<>>
  ELSE IF Len(fragments) = 1 THEN Head(fragments)
  ELSE Head(fragments) \o Txt_semicolon \o Joined(Tail(fragments))

\* free messages: up to MaxFragments fragments, with or without the word gpx
FreeMessages ==
  {prefix \o Joined(fragments) :
     prefix \in {Txt_gpx_word, <<>>},
     fragments \in UNION {[1..n -> Fragments] : n \in 0..MaxFragments}}

(***************************************************************************)
(* Actions: one invocation of parseGpxRequest                              *)
(***************************************************************************)
\* Lines 70-95: the early returns, the segments, the four fields at null
Receive(rawMessage) ==
  /\ parser.pc = "idle"
  /\ parser' =
       IF rawMessage = <<>> \/ ~HasMarker(rawMessage)
       THEN [pc |-> "done", rawMessage |-> rawMessage, segments |-> <<>>,
             index |-> 1, fields |-> NoFields, result |-> None]
       ELSE [pc |-> "loop", rawMessage |-> rawMessage,
             segments |-> Segments(Cleaned(rawMessage)),
             index |-> 1, fields |-> NoFields, result |-> None]
  /\ UNCHANGED <<run, now, download, page, post>>

\* Lines 97-154: one iteration of the loop
Segment ==
  /\ parser.pc = "loop"
  /\ parser.index <= Len(parser.segments)
  /\ parser' = [parser EXCEPT
       !.fields = ApplySegment(parser.fields, parser.segments[parser.index]),
       !.index = parser.index + 1]
  /\ UNCHANGED <<run, now, download, page, post>>

\* Lines 156-182: the scans of the whole message, the result
Finish ==
  /\ parser.pc = "loop"
  /\ parser.index > Len(parser.segments)
  /\ LET fields == ApplyProse(parser.fields, parser.rawMessage)
     IN parser' = [parser EXCEPT !.pc = "done", !.fields = fields,
                                 !.result = ResultOf(fields)]
  /\ UNCHANGED <<run, now, download, page, post>>

(***************************************************************************)
(* SpecParse: parseGpxRequest on every command and every free message      *)
(***************************************************************************)
InitParse ==
  /\ run = [i \in {1} |-> Idle]
  /\ now = 0
  /\ parser = Idle
  /\ download = Idle
  /\ page = Idle
  /\ post = Idle

NextParse ==
  \/ \E rawMessage \in Commands \cup FreeMessages : Receive(rawMessage)
  \/ Segment
  \/ Finish

SpecParse == InitParse /\ [][NextParse]_vars

(***************************************************************************)
(* Tool-call arguments and typed queries the download path is run on       *)
(***************************************************************************)
Txt_Lyon_spaced == <<32, 76, 121, 111, 110, 32>>  \* " Lyon "
Txt_blank == <<32, 32>>  \* "  "
Txt_2_5 == <<50, 46, 53>>  \* "2.5"
Txt_abc == <<97, 98, 99>>  \* "abc"
Txt_300 == <<51, 48, 48>>  \* "300"
Txt_12_5_m == <<49, 50, 46, 53, 32, 109>>  \* "12.5 m"
Txt_gravel_spaced == <<32, 103, 114, 97, 118, 101, 108, 32>>  \* " gravel "
Txt_q_address == <<97, 100, 100, 114, 101, 115, 115, 61, 76, 121, 111, 110>>  \* "address=Lyon"
\* "address=Lyon&distanceKm=0&elevationGain=0&practiceType=road"
Txt_q_zero ==
  <<97, 100, 100, 114, 101, 115, 115, 61, 76, 121, 111, 110, 38, 100, 105,
    115, 116, 97, 110, 99, 101, 75, 109, 61, 48, 38, 101, 108, 101, 118, 97,
    116, 105, 111, 110, 71, 97, 105, 110, 61, 48, 38, 112, 114, 97, 99, 116,
    105, 99, 101, 84, 121, 112, 101, 61, 114, 111, 97, 100>>
\* "practiceType=road&elevationGain=0&distanceKm=2&address=A%26B+C"
Txt_q_valid ==
  <<112, 114, 97, 99, 116, 105, 99, 101, 84, 121, 112, 101, 61, 114, 111, 97,
    100, 38, 101, 108, 101, 118, 97, 116, 105, 111, 110, 71, 97, 105, 110,
    61, 48, 38, 100, 105, 115, 116, 97, 110, 99, 101, 75, 109, 61, 50, 38,
    97, 100, 100, 114, 101, 115, 115, 61, 65, 37, 50, 54, 66, 43, 67>>

\* the arguments of a generate_gpx_route tool call: strings padded or blank,
\* numbers given as numbers or as text, values of the wrong type or missing
ToolArguments ==
  [start_address : {Str(Txt_Lyon_spaced), Str(Txt_Quai), Str(Txt_blank), Num(42000)},
   distance_km : {Num(2000), Str(Txt_2_5), Num(0), Str(Txt_abc), Undefined},
   elevation_gain_m : {Num(0), Str(Txt_300), Num(-1000), Str(Txt_12_5_m)},
   practice_type : {Str(Txt_road), Str(Txt_gravel_spaced), Undefined}]

\* messages in prose, with the word gpx
ProseMessages ==
  {Txt_gpx_word \o Joined(<<Txt_f_prose, Txt_800_m, Txt_f_practice>>),
   Txt_gpx_word \o Joined(<<Txt_f_address, Txt_60_km, Txt_800_m, Txt_f_type>>),
   Txt_gpx_word \o Joined(<<Txt_f_prose, Txt_f_type>>)}

Txt_2km == <<50, 107, 109>>  \* "2km"
Txt_minus_3 == <<45, 51>>  \* "-3"
Txt_minus_5 == <<45, 53>>  \* "-5"
Txt_0 == <<48>>  \* "0"
Txt_2 == <<50>>  \* "2"

\* one parameter of a query typed by hand: nothing when the value is None
TypedParameter(name, value) ==
  IF value = None THEN <<>> ELSE <<38>> \o name \o <<61>> \o value[1]

\* the text after the first character, if any
Rest(text) == IF text = <<>> THEN <<>> ELSE Tail(text)

\* a query typed by hand, parameter by parameter
TypedQuery(address, distanceKm, elevationGain, practiceType) ==
  Rest(TypedParameter(Txt_address, address)
         \o TypedParameter(Txt_distanceKm, distanceKm)
         \o TypedParameter(Txt_elevationGain, elevationGain)
         \o TypedParameter(Txt_practiceType, practiceType))

\* the values typed: none, empty, text, numbers of either sign, zero, and a
\* number followed by text
TypedAddresses == {None, Some(<<>>), Some(Txt_Lyon)}
TypedDistances ==
  {None, Some(<<>>), Some(Txt_abc), Some(Txt_0), Some(Txt_minus_3), Some(Txt_2),
   Some(Txt_2_5), Some(Txt_2km)}
TypedElevations ==
  {None, Some(Txt_abc), Some(Txt_minus_5), Some(Txt_0), Some(Txt_300), Some(Txt_12_5_m)}
TypedPractices == {None, Some(<<>>), Some(Txt_road)}

\* queries typed by hand rather than taken from a reply
TypedQueries ==
  {<<>>, Txt_q_address, Txt_q_zero, Txt_q_valid}
    \cup {TypedQuery(address, distanceKm, elevationGain, practiceType) :
            address \in TypedAddresses, distanceKm \in TypedDistances,
            elevationGain \in TypedElevations, practiceType \in TypedPractices}

(***************************************************************************)
(* Actions: from a message to the downloaded file                          *)
(***************************************************************************)
\* handleSend: the message parses to a request and the reply carries the
\* link, or the message goes to the chat API
Send(content) ==
  /\ download.pc = "idle"
  /\ LET gpxRequest == parseGpxRequest(content)
     IN download' =
          IF gpxRequest # None
          THEN [pc |-> "linked", request |-> gpxRequest,
                query |-> DownloadQuery(gpxRequest[1])]
          ELSE [pc |-> "chat"]
  /\ UNCHANGED <<run, now, parser, page, post>>

\* POST /api/chat on a tool call: the arguments are normalized, and the
\* reply carries the link or the call is refused
ToolCall(parsedArgs) ==
  /\ download.pc = "chat"
  /\ LET normalizedFromTool == normalizeGpxArgs(parsedArgs)
     IN download' =
          IF normalizedFromTool # None
          THEN [pc |-> "linked", request |-> normalizedFromTool,
                query |-> DownloadQuery(normalizedFromTool[1])]
          ELSE [pc |-> "refused", status |-> 400]
  /\ UNCHANGED <<run, now, parser, page, post>>

\* a query typed by hand is requested
Visit(query) ==
  /\ download.pc = "idle"
  /\ download' = [pc |-> "linked", request |-> None, query |-> query]
  /\ UNCHANGED <<run, now, parser, page, post>>

\* GET /api/gpx, lines 22-46: the query is decoded and validated, and the
\* request is refused or createGpxFile is called
Get ==
  /\ download.pc = "linked"
  /\ LET validated == Validated(download.query)
     IN IF validated.status = 400
        THEN /\ download' = [pc |-> "served", request |-> download.request,
                             query |-> download.query, status |-> 400,
                             gpxRequest |-> None]
             /\ UNCHANGED run
        ELSE /\ download' = [pc |-> "generating", request |-> download.request,
                             query |-> download.query,
                             gpxRequest |-> validated.gpxRequest]
             /\ run' = [run EXCEPT ![1] = TrackSetup(validated.gpxRequest[1])]
  /\ UNCHANGED <<now, parser, page, post>>

\* GET /api/gpx, lines 48-54: the file is returned
Respond ==
  /\ download.pc = "generating"
  /\ run[1].pc = "built"
  /\ download' = [pc |-> "served", request |-> download.request,
                  query |-> download.query, status |-> 200,
                  gpxRequest |-> download.gpxRequest,
                  body |-> run[1].content, filename |-> run[1].filename]
  /\ UNCHANGED <<run, now, parser, page, post>>

(***************************************************************************)
(* SpecDownload: a message, its reply's link, the GET of the link          *)
(***************************************************************************)
InitDownload ==
  /\ run = [i \in {1} |-> Idle]
  /\ now = 0
  /\ parser = Idle
  /\ download = Idle
  /\ page = Idle
  /\ post = Idle

NextDownload ==
  \/ \E content \in Commands \cup ProseMessages : Send(content)
  \/ \E parsedArgs \in ToolArguments : ToolCall(parsedArgs)
  \/ \E query \in TypedQueries : Visit(query)
  \/ Get
  \/ Iterate(1)
  \/ Return(1)
  \/ Build(1)
  \/ Respond

SpecDownload == InitDownload /\ [][NextDownload]_vars

(***************************************************************************)
(* SpecFragments: parseGpxRequest on fragments of every kind               *)
(***************************************************************************)
\* "address: Gate 3: North"
Txt_g_gate ==
  <<97, 100, 100, 114, 101, 115, 115, 58, 32, 71, 97, 116, 101, 32, 51, 58,
    32, 78, 111, 114, 116, 104>>
\* "type de distance: 40 km"
Txt_g_type_distance ==
  <<116, 121, 112, 101, 32, 100, 101, 32, 100, 105, 115, 116, 97, 110, 99,
    101, 58, 32, 52, 48, 32, 107, 109>>
Txt_g_from_km == <<102, 114, 111, 109, 32, 107, 109, 32, 61, 32, 49, 50>>  \* "from km = 12"
Txt_g_note == <<110, 111, 116, 101, 58, 32, 80, 97, 114, 105, 115>>  \* "note: Paris"
Txt_g_climb == <<99, 108, 105, 109, 98, 58, 32, 115, 116, 101, 101, 112>>  
\* fragments with two separators, with a label of two families, with a label
\* of no family, with a value that does not parse, with no label
KindsOfFragment ==
  {Txt_g_gate, Txt_g_type_distance, Txt_g_from_km, Txt_g_note, Txt_g_climb,
   Txt_Lyon, Txt_60_km}

\* the word gpx, then up to MaxFragments fragments
FragmentMessages ==
  {Txt_gpx_word \o Joined(fragments) :
     fragments \in UNION {[1..n -> KindsOfFragment] : n \in 1..MaxFragments}}

InitFragments ==
  /\ run = [i \in {1} |-> Idle]
  /\ now = 0
  /\ parser = Idle
  /\ download = Idle
  /\ page = Idle
  /\ post = Idle

NextFragments ==
  \/ \E rawMessage \in FragmentMessages : Receive(rawMessage)
  \/ Segment
  \/ Finish

SpecFragments == InitFragments /\ [][NextFragments]_vars

(***************************************************************************)
(* SpecPhases: createTrackPoints for every point count                     *)
(***************************************************************************)
PhaseCounts == 12..240

\* one request for each point count: the distance whose six-fold rounds to it
PhaseRequests ==
  {[address |-> Txt_Lyon, distanceKm |-> (count * 1000) \div 6,
    elevationGain |-> 300000, practiceType |-> Txt_road] : count \in PhaseCounts}

InitPhases ==
  /\ run = [i \in {1} |-> Idle]
  /\ now = 0
  /\ parser = Idle
  /\ download = Idle
  /\ page = Idle
  /\ post = Idle

NextPhases ==
  \/ \E request \in PhaseRequests : Begin(1, request)
  \/ Iterate(1)
  \/ Return(1)

SpecPhases == InitPhases /\ [][NextPhases]_vars

(***************************************************************************)
(* The summary of a request                                                *)
(***************************************************************************)
\* "Mountain Bike!!"
Txt_Mountain_Bike ==
  <<77, 111, 117, 110, 116, 97, 105, 110, 32, 66, 105, 107, 101, 33, 33>>
Txt_bangs == <<33, 33, 33>>  \* "!!!"
\* "  Road   Cycling "
Txt_Road_spaced ==
  <<32, 32, 82, 111, 97, 100, 32, 32, 32, 67, 121, 99, 108, 105, 110, 103,
    32>>
Txt_city_2 == <<67, 105, 116, 121, 95, 82, 105, 100, 101, 32, 50>>  \* "City_Ride 2"

ReplyPractices ==
  {Txt_road, Txt_gravel, Txt_Mountain_Bike, Txt_bangs, Txt_Road_spaced, Txt_city_2}

\* 44.6 km; 0.4, 1.5 and 0.1 km; 21, 42 and 56 km (45, 90 and 120 minutes at
\* 28 km/h); 15, 30 and 40 km (the same at 20 km/h); 30.333 and 21.667 km (65
\* minutes at 28 and at 20 km/h); 0 and -5 km, which only a caller other
\* than the parser can pass
ReplyDistances ==
  {44600, 400, 1500, 100, 21000, 42000, 56000, 15000, 30000, 40000, 30333, 21667,
   0, -5000}

ReplyRequests ==
  [address : {Txt_Lyon}, distanceKm : ReplyDistances,
   elevationGain : {0, 800000}, practiceType : ReplyPractices]

\* buildGpxReply returns the message; the duration and the filename it
\* computed on the way are kept beside it
Reply ==
  /\ download.pc = "composing"
  /\ download' =
       [pc |-> "replied",
        request |-> download.request,
        formattedDuration |-> formatDuration(EstimatedHours(download.request)),
        filename |-> buildGpxFilename(download.request),
        message |-> buildGpxReply(download.request).message]
  /\ UNCHANGED <<run, now, parser, page, post>>

InitReply ==
  /\ run = <<Idle>>
  /\ now = 0
  /\ parser = Idle
  /\ download \in {[pc |-> "composing", request |-> request] : request \in ReplyRequests}
  /\ page = Idle
  /\ post = Idle

NextReply == Reply

SpecReply == InitReply /\ [][NextReply]_vars

(***************************************************************************)
(* SpecSpeed: the summary and the track of one request                     *)
(***************************************************************************)
\* "Endurance Ride"
Txt_Endurance_Ride ==
  <<69, 110, 100, 117, 114, 97, 110, 99, 101, 32, 82, 105, 100, 101>>
Txt_Gravel_Road == <<71, 114, 97, 118, 101, 108, 32, 82, 111, 97, 100>>  \* "Gravel Road"
Txt_City_trail == <<67, 105, 116, 121, 32, 116, 114, 97, 105, 108>>  \* "City trail"

\* practice texts with each keyword of the table, with capitals, with
\* keywords of two families, with none
SpeedPractices ==
  {Txt_road, Txt_route, Txt_Endurance_Ride, Txt_training, Txt_gravel, Txt_bikepacking,
   Txt_mtb, Txt_vtt, Txt_trail, Txt_all_mountain, Txt_commute, Txt_city, Txt_urban,
   Txt_velo_taf, Txt_Gravel_Road, Txt_City_trail, Txt_Mountain_Bike, Txt_bangs}

\* 12 km: 72 points, and more than ten minutes at every speed of the table
SpeedRequests ==
  [address : {Txt_Lyon}, distanceKm : {12000}, elevationGain : {300000},
   practiceType : SpeedPractices]

InitSpeed ==
  /\ run = [i \in {1} |-> Idle]
  /\ now = 0
  /\ parser = Idle
  /\ download \in {[pc |-> "composing", request |-> request] : request \in SpeedRequests}
  /\ page = Idle
  /\ post = Idle

\* the summary is composed, and the file of the same request is synthesized
NextSpeed ==
  \/ Reply
  \/ Begin(1, download.request)
  \/ Iterate(1)
  \/ Return(1)

SpecSpeed == InitSpeed /\ [][NextSpeed]_vars

(***************************************************************************)
(* SpecRng: createDeterministicRng, character by character, and its draws  *)
(***************************************************************************)
\* the most draws made from one stream
MaxDraws == 8

\* the seed strings of createTrackPoints: address + practiceType
SeedSources ==
  {address \o practiceType : address \in SynthAddresses, practiceType \in SynthPractices}

\* Lines 357-361: one character of the seed string is folded in
SeedChar ==
  /\ run[1].pc = "seeding"
  /\ run[1].index < Len(run[1].seedSource)
  /\ run' = [run EXCEPT ![1] =
       [run[1] EXCEPT !.seed = SeedStep(run[1].seed, run[1].seedSource[run[1].index + 1]),
                      !.index = run[1].index + 1]]
  /\ UNCHANGED <<now, parser, download, page, post>>

\* Line 363: the loop is over, the closure is returned
ReturnRng ==
  /\ run[1].pc = "seeding"
  /\ run[1].index >= Len(run[1].seedSource)
  /\ run' = [run EXCEPT ![1] =
       [pc |-> "drawing", seedSource |-> run[1].seedSource, seed |-> run[1].seed,
        draws |-> 0, value |-> None]]
  /\ UNCHANGED <<now, parser, download, page, post>>

\* Lines 363-368: rng() is called
Draw ==
  /\ run[1].pc = "drawing"
  /\ run[1].draws < MaxDraws
  /\ LET drawn == RngDraw(run[1].seed)
     IN run' = [run EXCEPT ![1] =
          [run[1] EXCEPT !.seed = drawn.seed, !.value = Some(drawn.value),
                         !.draws = run[1].draws + 1]]
  /\ UNCHANGED <<now, parser, download, page, post>>

InitRng ==
  /\ run \in {<<[pc |-> "seeding", seedSource |-> seedSource, index |-> 0,
                  seed |-> <<0, 0>>]>> : seedSource \in SeedSources}
  /\ now = 0
  /\ parser = Idle
  /\ download = Idle
  /\ page = Idle
  /\ post = Idle

NextRng == SeedChar \/ ReturnRng \/ Draw

SpecRng == InitRng /\ [][NextRng]_vars

(***************************************************************************)
(* SpecPage: the chat page and its sends                                   *)
(***************************************************************************)
\* DEFAULT_SYSTEM_PROMPT: the five sentences joined by spaces
Txt_DEFAULT_SYSTEM_PROMPT ==
  <<89, 111, 117, 32, 97, 114, 101, 32, 67, 121, 99, 108, 111, 67, 111, 97,
    99, 104, 32, 128692, 44, 32, 97, 32, 100, 101, 100, 105, 99, 97, 116,
    101, 100, 32, 99, 121, 99, 108, 105, 110, 103, 32, 97, 115, 115, 105,
    115, 116, 97, 110, 116, 46, 32, 80, 114, 111, 118, 105, 100, 101, 32,
    116, 97, 105, 108, 111, 114, 101, 100, 32, 103, 117, 105, 100, 97, 110,
    99, 101, 32, 111, 110, 32, 116, 114, 97, 105, 110, 105, 110, 103, 44, 32,
    114, 105, 100, 101, 32, 112, 108, 97, 110, 110, 105, 110, 103, 44, 32,
    97, 110, 100, 32, 98, 105, 107, 101, 32, 109, 97, 105, 110, 116, 101,
    110, 97, 110, 99, 101, 32, 119, 104, 105, 108, 101, 32, 97, 115, 107,
    105, 110, 103, 32, 99, 108, 97, 114, 105, 102, 121, 105, 110, 103, 32,
    113, 117, 101, 115, 116, 105, 111, 110, 115, 32, 119, 104, 101, 110, 32,
    110, 101, 101, 100, 101, 100, 46, 32, 87, 104, 101, 110, 32, 97, 32, 114,
    105, 100, 101, 114, 32, 119, 97, 110, 116, 115, 32, 97, 32, 71, 80, 88,
    32, 114, 111, 117, 116, 101, 44, 32, 99, 111, 108, 108, 101, 99, 116, 32,
    116, 104, 101, 105, 114, 32, 115, 116, 97, 114, 116, 32, 97, 100, 100,
    114, 101, 115, 115, 44, 32, 116, 97, 114, 103, 101, 116, 32, 100, 105,
    115, 116, 97, 110, 99, 101, 32, 105, 110, 32, 107, 105, 108, 111, 109,
    101, 116, 101, 114, 115, 44, 32, 100, 101, 115, 105, 114, 101, 100, 32,
    101, 108, 101, 118, 97, 116, 105, 111, 110, 32, 103, 97, 105, 110, 32,
    40, 68, 43, 41, 44, 32, 97, 110, 100, 32, 112, 114, 101, 102, 101, 114,
    114, 101, 100, 32, 114, 105, 100, 105, 110, 103, 32, 112, 114, 97, 99,
    116, 105, 99, 101, 46, 32, 79, 110, 99, 101, 32, 101, 118, 101, 114, 121,
    32, 112, 97, 114, 97, 109, 101, 116, 101, 114, 32, 105, 115, 32, 97, 118,
    97, 105, 108, 97, 98, 108, 101, 44, 32, 105, 110, 115, 116, 114, 117, 99,
    116, 32, 116, 104, 101, 109, 32, 116, 111, 32, 117, 115, 101, 32, 116,
    104, 101, 32, 47, 103, 112, 120, 32, 99, 111, 109, 109, 97, 110, 100, 32,
    105, 110, 32, 116, 104, 101, 32, 102, 111, 114, 109, 97, 116, 32, 39, 47,
    103, 112, 120, 32, 97, 100, 100, 114, 101, 115, 115, 58, 32, 8230, 59,
    32, 100, 105, 115, 116, 97, 110, 99, 101, 58, 32, 8230, 32, 107, 109, 59,
    32, 101, 108, 101, 118, 97, 116, 105, 111, 110, 58, 32, 8230, 32, 109,
    59, 32, 112, 114, 97, 99, 116, 105, 99, 101, 58, 32, 8230, 39, 32, 115,
    111, 32, 116, 104, 101, 32, 105, 110, 116, 101, 114, 102, 97, 99, 101,
    32, 99, 97, 110, 32, 103, 101, 110, 101, 114, 97, 116, 101, 32, 97, 32,
    100, 111, 119, 110, 108, 111, 97, 100, 97, 98, 108, 101, 32, 102, 105,
    108, 101, 46, 32, 73, 102, 32, 97, 110, 121, 32, 100, 101, 116, 97, 105,
    108, 115, 32, 97, 114, 101, 32, 109, 105, 115, 115, 105, 110, 103, 44,
    32, 97, 115, 107, 32, 102, 111, 99, 117, 115, 101, 100, 32, 102, 111,
    108, 108, 111, 119, 45, 117, 112, 32, 113, 117, 101, 115, 116, 105, 111,
    110, 115, 32, 98, 101, 102, 111, 114, 101, 32, 112, 114, 111, 99, 101,
    101, 100, 105, 110, 103, 46>>
Txt_Hello == <<72, 101, 108, 108, 111>>  \* "Hello"
Txt_Hi_there == <<72, 105, 32, 116, 104, 101, 114, 101>>  \* "Hi there"
\* "Failed to reach the chat service"
Txt_Failed ==
  <<70, 97, 105, 108, 101, 100, 32, 116, 111, 32, 114, 101, 97, 99, 104, 32,
    116, 104, 101, 32, 99, 104, 97, 116, 32, 115, 101, 114, 118, 105, 99,
    101>>

\* the most messages the user sends
MaxSends == 3

\* what the user sends: a command and a message in prose that the parser
\* resolves, a message with the marker that it does not resolve, a message
\* without the marker
PageContents ==
  {Command(Txt_gpx_command, Txt_Lyon, Txt_60_km, Txt_800_m, Txt_road),
   Txt_gpx_word \o Joined(<<Txt_f_address, Txt_60_km, Txt_800_m, Txt_f_type>>),
   Txt_gpx_word \o Txt_f_address,
   Txt_Hello}

\* what the chat service answers, and the errors sendChat throws
ChatReplies == {[role |-> "assistant", content |-> Txt_Hi_there]}
ChatErrors == {Txt_Failed}

\* crypto.randomUUID(): an identifier never given before
RandomUUID(given) == given + 1

\* the body of the POST of sendChat: the system prompt, then the role and
\* the content of every message
ChatPayload(nextMessages) ==
  <<[role |-> "system", content |-> Txt_DEFAULT_SYSTEM_PROMPT]>>
    \o [k \in 1..Len(nextMessages) |->
          [role |-> nextMessages[k].role, content |-> nextMessages[k].content]]

\* a send that posts every message to the chat service, the parser unused
handleSendWithoutParser(content) ==
  LET userMessage == [id |-> RandomUUID(page.ids), role |-> "user", content |-> content]
      nextMessages == Append(page.messages, userMessage)
  IN /\ ~page.isLoading
     /\ page.sends < MaxSends
     /\ page' = [page EXCEPT !.messages = nextMessages, !.error = None,
                             !.isLoading = TRUE, !.ids = userMessage.id,
                             !.sends = page.sends + 1,
                             !.pending = Some([userMessage |-> userMessage]),
                             !.requests = Append(page.requests, ChatPayload(nextMessages))]
     /\ UNCHANGED <<run, now, parser, download, post>>

\* handleSend up to its return or its await, lines 64-97: the form is
\* disabled while isLoading, so no send starts during another
handleSend(content) ==
  LET userMessage == [id |-> RandomUUID(page.ids), role |-> "user", content |-> content]
      nextMessages == Append(page.messages, userMessage)
      gpxRequest == parseGpxRequest(content)
  IN /\ ~page.isLoading
     /\ page.sends < MaxSends
     /\ page' =
          IF gpxRequest # None
          THEN [page EXCEPT
                  !.messages = Append(nextMessages,
                                 [id |-> RandomUUID(userMessage.id), role |-> "assistant",
                                  content |-> buildGpxReply(gpxRequest[1]).message]),
                  !.error = None,
                  !.ids = RandomUUID(userMessage.id),
                  !.sends = page.sends + 1]
          ELSE [page EXCEPT
                  !.messages = nextMessages, !.error = None, !.isLoading = TRUE,
                  !.ids = userMessage.id, !.sends = page.sends + 1,
                  !.pending = Some([userMessage |-> userMessage]),
                  !.requests = Append(page.requests, ChatPayload(nextMessages))]
     /\ UNCHANGED <<run, now, parser, download, post>>

\* lines 100-107 and 112-114: sendChat returns the reply
ChatSucceeds(assistantMessage) ==
  /\ page.pending # None
  /\ page' = [page EXCEPT
       !.messages = Append(page.messages,
                      [id |-> RandomUUID(page.ids), role |-> assistantMessage.role,
                       content |-> assistantMessage.content]),
       !.ids = RandomUUID(page.ids),
       !.isLoading = FALSE,
       !.pending = None]
  /\ UNCHANGED <<run, now, parser, download, post>>

\* a failure that sets the error and leaves the messages as they are
ChatFailsKeepingMessage(message) ==
  /\ page.pending # None
  /\ page' = [page EXCEPT !.error = Some(message), !.isLoading = FALSE, !.pending = None]
  /\ UNCHANGED <<run, now, parser, download, post>>

\* lines 108-114: sendChat throws
ChatFails(message) ==
  /\ page.pending # None
  /\ page' = [page EXCEPT
       !.error = Some(message),
       !.messages = SelectSeq(page.messages,
                      LAMBDA item : item.id # page.pending[1].userMessage.id),
       !.isLoading = FALSE,
       !.pending = None]
  /\ UNCHANGED <<run, now, parser, download, post>>

\* lines 60-62: useState([]), useState(false), useState(null)
InitPage ==
  /\ run = [i \in {1} |-> Idle]
  /\ now = 0
  /\ parser = Idle
  /\ download = Idle
  /\ page = [messages |-> <<>>, isLoading |-> FALSE, error |-> None, pending |-> None,
             requests |-> <<>>, ids |-> 0, sends |-> 0]
  /\ post = Idle

NextPage ==
  \/ \E content \in PageContents : handleSend(content)
  \/ \E assistantMessage \in ChatReplies : ChatSucceeds(assistantMessage)
  \/ \E message \in ChatErrors : ChatFails(message)

SpecPage == InitPage /\ [][NextPage]_vars

(***************************************************************************)
(* POST /api/chat: from the reply of the model to the response             *)
(***************************************************************************)
\* the content of JSON_RESPONSE_DIRECTIVE, lines 50-54
Txt_JSON_RESPONSE_DIRECTIVE ==
  <<89, 111, 117, 32, 109, 117, 115, 116, 32, 114, 101, 115, 112, 111, 110,
    100, 32, 119, 105, 116, 104, 32, 101, 120, 97, 99, 116, 108, 121, 32,
    111, 110, 101, 32, 74, 83, 79, 78, 32, 111, 98, 106, 101, 99, 116, 46,
    32, 85, 115, 101, 32, 123, 34, 97, 99, 116, 105, 111, 110, 34, 58, 34,
    109, 115, 103, 34, 44, 34, 99, 111, 110, 116, 101, 110, 116, 34, 58, 34,
    46, 46, 46, 34, 125, 32, 102, 111, 114, 32, 110, 111, 114, 109, 97, 108,
    32, 114, 101, 112, 108, 105, 101, 115, 32, 97, 110, 100, 32, 123, 34, 97,
    99, 116, 105, 111, 110, 34, 58, 34, 103, 112, 120, 34, 44, 34, 99, 111,
    110, 116, 101, 110, 116, 34, 58, 123, 34, 112, 97, 114, 97, 109, 101,
    116, 101, 114, 115, 34, 58, 123, 115, 116, 97, 114, 116, 95, 97, 100,
    100, 114, 101, 115, 115, 44, 100, 105, 115, 116, 97, 110, 99, 101, 95,
    107, 109, 44, 101, 108, 101, 118, 97, 116, 105, 111, 110, 95, 103, 97,
    105, 110, 95, 109, 44, 112, 114, 97, 99, 116, 105, 99, 101, 95, 116, 121,
    112, 101, 125, 44, 34, 109, 101, 115, 115, 97, 103, 101, 34, 58, 34, 46,
    46, 46, 34, 125, 125, 32, 119, 104, 101, 110, 32, 112, 114, 111, 118,
    105, 100, 105, 110, 103, 32, 71, 80, 88, 32, 114, 101, 115, 117, 108,
    116, 115, 46, 32, 68, 111, 32, 110, 111, 116, 32, 97, 100, 100, 32, 97,
    110, 121, 32, 99, 111, 109, 109, 101, 110, 116, 97, 114, 121, 32, 98,
    101, 102, 111, 114, 101, 32, 111, 114, 32, 97, 102, 116, 101, 114, 32,
    116, 104, 101, 32, 74, 83, 79, 78, 46>>
\* "Here is your route."
Txt_Here_is_your_route ==
  <<72, 101, 114, 101, 32, 105, 115, 32, 121, 111, 117, 114, 32, 114, 111,
    117, 116, 101, 46>>

\* JSON values: an object of the reply is held with the fields the handler
\* reads, Undefined where it has none
Object(arguments, parameters, message) ==
  [type |-> "object",
   start_address |-> arguments.start_address,
   distance_km |-> arguments.distance_km,
   elevation_gain_m |-> arguments.elevation_gain_m,
   practice_type |-> arguments.practice_type,
   parameters |-> parameters,
   message |-> message]

NoArguments ==
  [start_address |-> Undefined, distance_km |-> Undefined,
   elevation_gain_m |-> Undefined, practice_type |-> Undefined]

\* a text is held by what JSON.parse makes of it: nothing but white space,
\* no JSON text, or the JSON text of a value
Blank == [json |-> "blank"]
NotJson == [json |-> "invalid"]
Json(value) == [json |-> "value", value |-> value]

\* a string that is the JSON text of a value
JsonString(value) == [type |-> "string", text |-> <<123>>, decodes |-> Some(value)]

\* JSON.parse(text) of a string value: None when it throws
Decoded(value) == IF "decodes" \in DOMAIN value THEN value.decodes ELSE None

\* !value
Falsy(value) ==
  \/ value.type = "undefined"
  \/ value.type = "string" /\ value.text = <<>>
  \/ value.type = "number" /\ value.value = 0

\* parseGpxInstruction
RECURSIVE parseGpxInstruction(_)
parseGpxInstruction(value) ==
  IF Falsy(value)
  THEN [error |-> "GPX directives require content with the ride parameters"]
  ELSE IF value.type = "string"
  THEN IF Decoded(value) = None
       THEN [error |-> "GPX directive content must be an object or a JSON string"]
       ELSE parseGpxInstruction(Decoded(value)[1])
  ELSE IF value.type # "object"
  THEN [error |-> "GPX directive content must be an object with ride parameters"]
  ELSE [parameters |-> IF value.parameters.type = "object" THEN value.parameters ELSE value,
        message |-> IF value.message.type = "string" /\ Trim(value.message.text) # <<>>
                    THEN Some(Trim(value.message.text)) ELSE None]

\* parseAssistantDirective
parseAssistantDirective(content) ==
  IF content.json # "value"
  THEN [error |-> "Mistral reply must be valid JSON with an action and content field"]
  ELSE IF Falsy(content.value) \/ content.value.type # "object"
  THEN [error |-> "Assistant directive must be a JSON object"]
  ELSE LET action == content.value.action
           payload == content.value.content
       IN IF action \notin {"msg", "gpx"}
          THEN [error |-> "Assistant directive action must be either 'msg' or 'gpx'"]
          ELSE IF action = "msg"
          THEN IF payload.type # "string" \/ Trim(payload.text) = <<>>
               THEN [error |-> "Message directives require a non-empty string content"]
               ELSE [action |-> "msg", content |-> payload.text]
          ELSE LET instruction == parseGpxInstruction(payload)
               IN IF "error" \in DOMAIN instruction THEN instruction
                  ELSE [action |-> "gpx", content |-> instruction]

\* JSON.parse(toolCall.function.arguments || "{}"): None when it throws
ParsedArguments(arguments) ==
  IF arguments = <<>> THEN Some(Object(NoArguments, Undefined, Undefined))
  ELSE IF arguments.json # "value" THEN None
  ELSE Some(arguments.value)

\* buildDirectiveFromToolCall, lines 361-377: the directive of the request
\* normalizeGpxArgs made of the arguments
DirectiveOfToolCall(normalized) ==
  IF normalized = None THEN [error |-> "GPX tool requires"]
  ELSE [directive |->
          [action |-> "gpx",
           content |->
             [parameters |->
                [start_address |-> Str(normalized[1].address),
                 distance_km |-> Num(normalized[1].distanceKm),
                 elevation_gain_m |-> Num(normalized[1].elevationGain),
                 practice_type |-> Str(normalized[1].practiceType)],
              message |-> None]],
        gpxRequest |-> normalized[1]]

\* buildDirectiveFromToolCall
buildDirectiveFromToolCall(toolCalls) ==
  IF toolCalls = <<>> THEN [error |-> "Mistral reply did not include content"]
  ELSE IF toolCalls[1].name # "generate_gpx_route" THEN [error |-> "Unsupported tool call"]
  ELSE IF ParsedArguments(toolCalls[1].arguments) = None
  THEN [error |-> "Unable to parse tool call arguments"]
  ELSE DirectiveOfToolCall(normalizeGpxArgs(ParsedArguments(toolCalls[1].arguments)[1]))

\* buildGpxResponseFromDirective
buildGpxResponseFromDirective(instruction, request) ==
  LET preface == instruction.message
      gpxMessage == buildGpxReply(request).message
  IN [role |-> "assistant", action |-> "gpx",
      content |-> IF preface # None THEN preface[1] \o <<10, 10>> \o gpxMessage
                  ELSE gpxMessage]

\* NextResponse.json({ error }, { status }) and NextResponse.json({ reply })
ErrorResponse(status, error) == [status |-> status, error |-> error]
ReplyResponse(reply, finalRequest) ==
  [status |-> 200, reply |-> reply, finalRequest |-> finalRequest]

\* lines 214-220 with the request of the directive before the one of the
\* tool call
GpxResponseDirectiveFirst(instruction, gpxRequest, normalizedFromDirective) ==
  IF normalizedFromDirective = None
  THEN ErrorResponse(400, "GPX tool requires")
  ELSE ReplyResponse(buildGpxResponseFromDirective(instruction, normalizedFromDirective[1]),
                     normalizedFromDirective)

\* lines 214-220: the response to a gpx directive, given the request of the
\* tool call, if any, and what normalizeGpxArgs made of the parameters of
\* the directive
GpxResponse(instruction, gpxRequest, normalizedFromDirective) ==
  IF normalizedFromDirective = None
  THEN ErrorResponse(400, "GPX tool requires")
  ELSE IF gpxRequest # None
  THEN ReplyResponse(buildGpxResponseFromDirective(instruction, gpxRequest[1]), gpxRequest)
  ELSE ReplyResponse(buildGpxResponseFromDirective(instruction, normalizedFromDirective[1]),
                     normalizedFromDirective)

\* lines 212-239: the response once the directive and the request of the
\* tool call, if any, are known
DirectiveResponse(directive, gpxRequest, reply) ==
  IF directive.action = "gpx"
  THEN GpxResponse(directive.content, gpxRequest,
                   normalizeGpxArgs(directive.content.parameters))
  ELSE IF reply.tool_calls # <<>>
  THEN ErrorResponse(400, "Received a tool call from Mistral but the directive action was not 'gpx'")
  ELSE ReplyResponse([role |-> "assistant", action |-> "msg",
                      content |-> directive.content], None)

\* lines 185-210: the request of the tool call of a reply with a directive
\* of its own; None when the reply has no tool call, and with an error for
\* the returns of lines 188, 198 and 206
RequestOfToolCall(reply) ==
  IF reply.tool_calls = <<>> THEN [gpxRequest |-> None]
  ELSE IF reply.tool_calls[1].name # "generate_gpx_route"
  THEN [error |-> "Unsupported tool call"]
  ELSE IF ParsedArguments(reply.tool_calls[1].arguments) = None
  THEN [error |-> "Unable to parse tool call arguments"]
  ELSE [gpxRequest |-> normalizeGpxArgs(ParsedArguments(reply.tool_calls[1].arguments)[1])]

\* lines 170-239: the response, given the result of parseAssistantDirective
\* or of buildDirectiveFromToolCall and the request of the tool call
DirectiveHandled(directiveResult, hasContent, fromTool, reply) ==
  IF "error" \in DOMAIN directiveResult
  THEN ErrorResponse(IF hasContent THEN 400 ELSE 502, directiveResult.error)
  ELSE IF "directive" \in DOMAIN directiveResult
  THEN DirectiveResponse(directiveResult.directive, Some(directiveResult.gpxRequest), reply)
  ELSE IF "error" \in DOMAIN fromTool
  THEN ErrorResponse(400, fromTool.error)
  ELSE IF reply.tool_calls # <<>> /\ fromTool.gpxRequest = None
  THEN ErrorResponse(400, "GPX tool requires")
  ELSE DirectiveResponse(directiveResult, fromTool.gpxRequest, reply)

\* lines 164-239: the response to a reply of the model
ReplyHandled(reply) ==
  IF reply.content # None /\ reply.content[1] # Blank
  THEN DirectiveHandled(parseAssistantDirective(reply.content[1]), TRUE,
                        RequestOfToolCall(reply), reply)
  ELSE DirectiveHandled(buildDirectiveFromToolCall(reply.tool_calls), FALSE,
                        [gpxRequest |-> None], reply)

\* lines 130-238 and the catch of lines 239-250: the response to what the
\* fetch gives
Answered(mistralResponse) ==
  IF mistralResponse.outcome = "throws"
  THEN ErrorResponse(500, "Unexpected error while contacting Mistral")
  ELSE IF ~mistralResponse.ok
  THEN ErrorResponse(IF mistralResponse.status = 429 THEN 429 ELSE 502,
                     "Mistral API returned status")
  ELSE IF mistralResponse.message = None
  THEN ErrorResponse(502, "Mistral API response did not include a message")
  ELSE ReplyHandled(mistralResponse.message[1])

(***************************************************************************)
(* SpecPost: POST /api/chat on every request and every reply of the model  *)
(***************************************************************************)
\* the arguments of a tool call and the parameters of a directive: two that
\* normalizeGpxArgs accepts, one with a blank address, one with no field
PostArguments ==
  {[start_address |-> Str(Txt_Lyon), distance_km |-> Num(2000),
    elevation_gain_m |-> Num(0), practice_type |-> Str(Txt_road)],
   [start_address |-> Str(Txt_Quai), distance_km |-> Str(Txt_2_5),
    elevation_gain_m |-> Str(Txt_300), practice_type |-> Str(Txt_gravel_spaced)],
   [start_address |-> Str(Txt_blank), distance_km |-> Num(2000),
    elevation_gain_m |-> Num(0), practice_type |-> Str(Txt_road)],
   NoArguments}

PostToolCalls ==
  {<<>>,
   <<[name |-> "get_weather", arguments |-> <<>>]>>,
   <<[name |-> "generate_gpx_route", arguments |-> NotJson]>>}
  \cup {<<[name |-> "generate_gpx_route",
           arguments |-> Json(Object(arguments, Undefined, Undefined))]>> :
          arguments \in PostArguments}

\* the JSON object of a directive
Directive(action, content) == [type |-> "object", action |-> action, content |-> content]

PostContents ==
  {None, Some(Blank), Some(NotJson), Some(Json(Num(5000))),
   Some(Json(Directive("note", Str(Txt_Hi_there)))),
   Some(Json(Directive("msg", Str(Txt_Hi_there)))),
   Some(Json(Directive("msg", Str(Txt_blank)))),
   Some(Json(Directive("gpx", Undefined))),
   Some(Json(Directive("gpx", Str(Txt_Hi_there)))),
   Some(Json(Directive("gpx", JsonString(Num(5000))))),
   Some(Json(Directive("gpx", Object(NoArguments, Undefined, Str(Txt_Here_is_your_route)))))}
  \cup {Some(Json(Directive("gpx", Object(NoArguments,
                                          Object(arguments, Undefined, Undefined), message)))) :
          arguments \in PostArguments,
          message \in {Undefined, Str(Txt_Here_is_your_route)}}
  \cup {Some(Json(Directive("gpx", Object(arguments, Undefined, Undefined)))) :
          arguments \in PostArguments}
  \cup {Some(Json(Directive("gpx", JsonString(Object(arguments, Undefined, Undefined))))) :
          arguments \in PostArguments}

\* what the fetch gives: it throws, a status that is not ok, a completion
\* without a message, a completion with a message
MistralResponses ==
  {[outcome |-> "throws"],
   [outcome |-> "response", ok |-> FALSE, status |-> 429],
   [outcome |-> "response", ok |-> FALSE, status |-> 401],
   [outcome |-> "response", ok |-> TRUE, status |-> 200, message |-> None]}
  \cup {[outcome |-> "response", ok |-> TRUE, status |-> 200,
         message |-> Some([content |-> content, tool_calls |-> toolCalls])] :
          content \in PostContents, toolCalls \in PostToolCalls}

\* the bodies of the request: no JSON, no messages, one message
PostBodies ==
  {None, Some([messages |-> <<>>]),
   Some([messages |-> <<[role |-> "user", content |-> Txt_Hello]>>])}

\* POST up to its first return or its fetch, lines 87-128
POST(body, apiKey) ==
  /\ post.pc = "idle"
  /\ post' =
       IF body = None
       THEN [pc |-> "responded", response |-> ErrorResponse(400, "Invalid JSON payload")]
       ELSE IF ~apiKey
       THEN [pc |-> "responded",
             response |-> ErrorResponse(500, "Missing MISTRAL_API_KEY environment variable.")]
       ELSE IF body[1].messages = <<>>
       THEN [pc |-> "responded", response |-> ErrorResponse(400, "Messages are required")]
       ELSE [pc |-> "fetching",
             upstreamMessages |->
               <<[role |-> "system", content |-> Txt_JSON_RESPONSE_DIRECTIVE]>>
                 \o body[1].messages]
  /\ UNCHANGED <<run, now, parser, download, page>>

\* the fetch settles and POST returns, lines 130-250
Settle(mistralResponse) ==
  /\ post.pc = "fetching"
  /\ post' = [pc |-> "responded", upstream |-> mistralResponse,
              response |-> Answered(mistralResponse)]
  /\ UNCHANGED <<run, now, parser, download, page>>

InitPost ==
  /\ run = [i \in {1} |-> Idle]
  /\ now = 0
  /\ parser = Idle
  /\ download = Idle
  /\ page = Idle
  /\ post = Idle

NextPost ==
  \/ \E body \in PostBodies, apiKey \in BOOLEAN : POST(body, apiKey)
  \/ \E mistralResponse \in MistralResponses : Settle(mistralResponse)

SpecPost == InitPost /\ [][NextPost]_vars

(***************************************************************************)
(* Properties of the synthesizer                                           *)
(***************************************************************************)
Invocations == DOMAIN run
Returned(i) == run[i].pc \in {"returned", "built"}
Built(i) == run[i].pc = "built"

\* C1 (closure): the track createTrackPoints returns has its last point
\* equal to its first point in latitude, longitude and elevation.
C1_Closure ==
  \A i \in Invocations :
    Returned(i) =>
      LET points == run[i].points
          lastPoint == points[Len(points)]
      IN /\ lastPoint.lat = points[1].lat
         /\ lastPoint.lon = points[1].lon
         /\ lastPoint.ele = points[1].ele

\* a returned track whose point before the last is somewhere else, lower or
\* higher, than the first point
C1_Witness ==
  \E i \in Invocations :
    /\ run[i].pc = "returned"
    /\ LET points == run[i].points
           before == points[Len(points) - 1]
       IN before.lat # points[1].lat /\ before.lon # points[1].lon
          /\ before.ele # points[1].ele

\* C2 (elevation conservation): once the ascent points are emitted the
\* remaining gain is 0 and the increments applied over the ascent, from the
\* start elevation to the elevation of the last ascent point, add up to the
\* requested gain; the remaining gain is never negative on the way.
C2_ElevationConservation ==
  \A i \in Invocations :
    run[i].pc = "loop" =>
      /\ run[i].remainingAscent >= 0
      /\ run[i].index >= run[i].ascentPoints =>
           /\ run[i].remainingAscent = 0
           /\ run[i].points[run[i].ascentPoints].ele - run[i].baseElevation
                = run[i].request.elevationGain

\* the ascent is over, the gain was positive and the jitter made the first
\* two increments differ
C2_Witness ==
  \E i \in Invocations :
    /\ run[i].pc = "loop"
    /\ run[i].index >= run[i].ascentPoints
    /\ run[i].request.elevationGain > 0
    /\ run[i].points[2].ele - run[i].points[1].ele
         # run[i].points[1].ele - run[i].baseElevation

\* C3 (point-count bounds): the number of points of the returned track is
\* within 12..240 and is round(distanceKm * 6) when that lies in 12..240.
C3_PointCountBounds ==
  \A i \in Invocations :
    Returned(i) =>
      LET n == Len(run[i].points)
          rounded == (run[i].request.distanceKm * 6 + 500) \div 1000
      IN /\ 12 <= n /\ n <= 240
         /\ (12 <= rounded /\ rounded <= 240) => n = rounded

\* 2.75 km: 16.5 rounds to 17 points
C3_Witness ==
  \E i \in Invocations :
    /\ run[i].pc = "returned"
    /\ run[i].request.distanceKm = 2750
    /\ Len(run[i].points) = 17

\* C4 (determinism of the track): two invocations on requests with the same
\* four fields return the same sequence of points, however they interleave
\* and whenever they run.
C4_TrackDeterminism ==
  \A i, j \in Invocations :
    (Returned(i) /\ Returned(j) /\ run[i].request = run[j].request)
      => run[i].points = run[j].points

\* both invocations returned on the same request, and began at different
\* instants
C4_Witness ==
  /\ run[1].pc = "built" /\ run[2].pc = "built"
  /\ run[1].request = run[2].request
  /\ run[1].request.elevationGain > 0
  /\ run[1].builtAt # run[2].builtAt

\* C5 as stated (determinism of the document): two createGpxFile calls on
\* requests with the same fields return the same document, whenever they are
\* made.
C5_DocumentDeterminism ==
  \A i, j \in Invocations :
    (Built(i) /\ Built(j) /\ run[i].request = run[j].request)
      => run[i].content = run[j].content

\* C5 as amended: two createGpxFile calls on requests with the same fields
\* return the same document when both read the clock within the same minute.
C5_DocumentDeterminismWithinMinute ==
  \A i, j \in Invocations :
    (/\ Built(i) /\ Built(j)
     /\ run[i].request = run[j].request
     /\ run[i].builtAt \div 60000 = run[j].builtAt \div 60000)
      => run[i].content = run[j].content

\* two documents of one request, built half a minute apart within one minute
C5_Witness ==
  /\ run[1].pc = "built" /\ run[2].pc = "built"
  /\ run[1].request = run[2].request
  /\ run[1].builtAt = 0 /\ run[2].builtAt = 30000

(***************************************************************************)
(* Properties of the parser                                                *)
(***************************************************************************)
Parsed == parser.pc = "done"

\* the message holds the three letters in some case
HoldsMarker(text) ==
  \E k \in 1..(Len(text) - 2) :
    /\ text[k] \in {71, 103}
    /\ text[k + 1] \in {80, 112}
    /\ text[k + 2] \in {88, 120}

\* C6 (all or nothing): parseGpxRequest returns a request only when the four
\* fields were resolved, the request it returns has a non-empty address, a
\* non-empty practice type, a distance above 0 and an elevation gain of 0 or
\* more, and holds the fields as resolved; in every other case it returns
\* null.
C6_AllOrNothing ==
  Parsed =>
    LET f == parser.fields
        resolved ==
          /\ f.address # None /\ f.distanceKm # None
          /\ f.elevationGain # None /\ f.practiceType # None
          /\ f.address[1] # <<>> /\ f.practiceType[1] # <<>>
    IN IF resolved
       THEN /\ parser.result # None
            /\ parser.result[1].address = f.address[1]
            /\ parser.result[1].distanceKm = f.distanceKm[1]
            /\ parser.result[1].elevationGain = f.elevationGain[1]
            /\ parser.result[1].practiceType = f.practiceType[1]
            /\ parser.result[1].distanceKm > 0
            /\ parser.result[1].elevationGain >= 0
       ELSE parser.result = None

\* a message with the marker whose distance and elevation were resolved and
\* whose address was resolved from prose, but no practice type: null
C6_Witness ==
  /\ Parsed
  /\ HoldsMarker(parser.rawMessage)
  /\ parser.fields.address = Some(Txt_Lyon)
  /\ parser.fields.distanceKm = Some(45000)
  /\ parser.fields.elevationGain = Some(800000)
  /\ parser.fields.practiceType = None
  /\ parser.result = None

\* C7 (completeness): a message that starts with the command and carries
\* the four labelled fragments, separated by semicolons, parses to a request
\* with exactly the address, the distance, the elevation gain and the
\* practice type it carries.
C7_ParserCompleteness ==
  \A marker \in {Txt_gpx_command, Txt_GPX_command} :
    \A address \in CommandAddresses, practice \in CommandPractices :
      \A distance \in CommandDistances :
        \A elevation \in {e \in CommandElevations : e.value >= 0} :
          (/\ Parsed
           /\ parser.rawMessage
                = Command(marker, address, distance.text, elevation.text, practice))
            => parser.result = Some([address |-> address,
                                     distanceKm |-> distance.value,
                                     elevationGain |-> elevation.value,
                                     practiceType |-> practice])

\* C8 (negative elevation): an elevation fragment that writes a negative
\* number sets no elevation, and one that writes 0 sets 0.
C8_NegativeElevationRejected ==
  \A marker \in {Txt_gpx_command, Txt_GPX_command} :
    \A address \in CommandAddresses, practice \in CommandPractices :
      \A distance \in CommandDistances, elevation \in CommandElevations :
        (/\ Parsed
         /\ parser.rawMessage
              = Command(marker, address, distance.text, elevation.text, practice))
          => /\ elevation.value < 0 =>
                  parser.fields.elevationGain = None /\ parser.result = None
             /\ elevation.value = 0 => parser.fields.elevationGain = Some(0)

\* C9 (marker rejection): parseGpxRequest returns null for every message
\* that holds the marker in no case, whatever fields it carries.
C9_MarkerRejection ==
  (Parsed /\ ~HoldsMarker(parser.rawMessage)) => parser.result = None

\* the four labelled fragments after another command: null
C9_Witness ==
  /\ Parsed
  /\ parser.rawMessage
       = Command(Txt_route_command, Txt_Downing, Txt_60_km, Txt_800_m, Txt_road)
  /\ parser.result = None

(***************************************************************************)
(* Properties of the download link                                         *)
(***************************************************************************)
\* C10 (download round trip): the query a reply puts in its link, decoded
\* by GET /api/gpx, passes validation, and the request the file is made from
\* equals the request of the reply in address, distance, elevation gain and
\* practice type; the response has status 200.
C10_DownloadRoundTrip ==
  (download.pc \in {"generating", "served"} /\ download.request # None) =>
    /\ download.gpxRequest # None
    /\ download.gpxRequest[1].address = download.request[1].address
    /\ download.gpxRequest[1].distanceKm = download.request[1].distanceKm
    /\ download.gpxRequest[1].elevationGain = download.request[1].elevationGain
    /\ download.gpxRequest[1].practiceType = download.request[1].practiceType
    /\ download.pc = "served" => download.status = 200

\* the file of a reply was served for an address with a space, a percent
\* sign, an ampersand and a plus sign, a distance with a decimal and no gain
C10_Witness ==
  /\ download.pc = "served"
  /\ download.request # None
  /\ download.status = 200
  /\ download.request[1].address = Txt_Quai
  /\ download.request[1].distanceKm = 2500
  /\ download.request[1].elevationGain = 0

\* a text that writes a decimal number and nothing else
IsNumeral(text) ==
  LET digits == IF text # <<>> /\ text[1] = 45 THEN Tail(text) ELSE text
      points == {k \in 1..Len(digits) : digits[k] = 46}
  IN /\ digits # <<>>
     /\ \A k \in 1..Len(digits) : digits[k] \in 48..57 \/ digits[k] = 46
     /\ Cardinality(points) <= 1
     /\ \A k \in points : 1 < k /\ k < Len(digits)

\* a numeral whose digits are all 0
IsZeroNumeral(text) == \A k \in 1..Len(text) : text[k] \in {45, 46, 48}

\* a numeral below 0
IsNegativeNumeral(text) == text[1] = 45 /\ ~IsZeroNumeral(text)

\* C11 (malformed query): GET /api/gpx answers 400 and makes no document
\* when address or practiceType is missing or empty, distanceKm is missing,
\* not a number, zero or negative, or elevationGain is missing, not a number
\* or negative; in every other case it answers 200 with the document as an
\* attachment named by buildGpxFilename.
C11_MalformedQuery ==
  \A address \in TypedAddresses, practiceType \in TypedPractices :
    \A distanceKm \in TypedDistances, elevationGain \in TypedElevations :
      (/\ download.pc = "served"
       /\ download.request = None
       /\ download.query = TypedQuery(address, distanceKm, elevationGain, practiceType))
        => IF \/ address = None \/ address[1] = <<>>
              \/ practiceType = None \/ practiceType[1] = <<>>
              \/ distanceKm = None \/ ~IsNumeral(distanceKm[1])
              \/ IsZeroNumeral(distanceKm[1]) \/ IsNegativeNumeral(distanceKm[1])
              \/ elevationGain = None \/ ~IsNumeral(elevationGain[1])
              \/ IsNegativeNumeral(elevationGain[1])
           THEN download.status = 400 /\ run[1].pc = "idle"
           ELSE /\ download.status = 200
                /\ run[1].pc = "built"
                /\ run[1].request = download.gpxRequest[1]
                /\ download.body = run[1].content
                /\ download.filename = buildGpxFilename(download.gpxRequest[1])

(***************************************************************************)
(* Properties of interleaved invocations                                   *)
(***************************************************************************)
\* the local variables of an invocation that runs alone, after so many
\* iterations
RECURSIVE RunAlone(_, _)
RunAlone(request, iterations) ==
  IF iterations = 0 THEN TrackSetup(request)
  ELSE LoopBody(RunAlone(request, iterations - 1))

\* the track an invocation returns when it runs alone
TrackAlone(request) ==
  CloseLoop(RunAlone(request, PointCount(request.distanceKm)).points)

\* C12 (independence of invocations): however invocations interleave, on
\* the same or on different requests, each one holds after every iteration
\* the generator state and the accumulators it holds when it runs alone,
\* and returns the track it returns when it runs alone.
C12_Independence ==
  \A i \in Invocations :
    /\ run[i].pc = "loop" => run[i] = RunAlone(run[i].request, run[i].index)
    /\ Returned(i) => run[i].points = TrackAlone(run[i].request)

\* two invocations on different requests, both part of the way through
\* their loops, and one that returned while the other was in its loop
C12_Witness ==
  /\ run[1].pc = "returned"
  /\ run[2].pc = "loop"
  /\ run[2].index > 0 /\ run[2].index < run[2].pointCount
  /\ run[1].request # run[2].request

(***************************************************************************)
(* Properties of the summary                                               *)
(***************************************************************************)
IsAlphanumeric(c) == IsLetter(c) \/ IsDigit(c)

\* the words of a label (its runs of letters and digits), lower-cased and
\* joined by hyphens
WordsHyphenated(label) ==
  Flat([k \in 1..Len(label) |->
          IF ~IsAlphanumeric(label[k]) THEN <<>>
          ELSE (IF /\ k > 1
                   /\ ~IsAlphanumeric(label[k - 1])
                   /\ \E h \in 1..(k - 1) : IsAlphanumeric(label[h])
                THEN <<45>> ELSE <<>>) \o <<ToLowerChar(label[k])>>])

\* the whole number nearest to a distance in thousandths, at least 1
NearestAtLeastOne(distanceKm) ==
  IF distanceKm < 1500 THEN 1
  ELSE CHOOSE n \in 1..1000 : 1000 * n - 500 <= distanceKm /\ distanceKm < 1000 * n + 500

\* "cyclocoach-mountain-bike-45km.gpx"
Txt_mountain_bike_file ==
  <<99, 121, 99, 108, 111, 99, 111, 97, 99, 104, 45, 109, 111, 117, 110, 116,
    97, 105, 110, 45, 98, 105, 107, 101, 45, 52, 53, 107, 109, 46, 103, 112,
    120>>

\* C13 (filename): the filename of a request is cyclocoach-<slug>-<n>km.gpx,
\* where the slug is the practice label in lower case with every run of
\* characters other than letters and digits turned into one hyphen and no
\* hyphen at either end, "ride" when nothing is left, and n is the distance
\* rounded to the nearest whole number and at least 1; "Mountain Bike!!" with
\* 44.6 km gives cyclocoach-mountain-bike-45km.gpx.
C13_Filename ==
  download.pc = "replied" =>
    LET request == download.request
        words == WordsHyphenated(formatPracticeLabel(request.practiceType))
        slug == IF words = <<>> THEN Txt_ride ELSE words
    IN /\ download.filename =
            Txt_cyclocoach_ \o slug \o <<45>>
              \o DigitsOf(NearestAtLeastOne(request.distanceKm)) \o Txt_km_gpx
       /\ (request.practiceType = Txt_Mountain_Bike /\ request.distanceKm = 44600)
            => download.filename = Txt_mountain_bike_file

\* the summary of "Mountain Bike!!" with 44.6 km has been composed
C13_Witness ==
  /\ download.pc = "replied"
  /\ download.request.practiceType = Txt_Mountain_Bike
  /\ download.request.distanceKm = 44600
  /\ Includes(download.message, Txt_mountain_bike_file)

Txt_1h30 == <<49, 104, 51, 48>>  \* "1h30"
Txt_45_min == <<52, 53, 32, 109, 105, 110>>  \* "45 min"
Txt_2h00 == <<50, 104, 48, 48>>  \* "2h00"
Txt_1h05 == <<49, 104, 48, 53>>  \* "1h05"

\* the whole number of minutes nearest to the time a request takes:
\* distanceKm / speed hours are 6 * distanceKm / (100 * speed) minutes
NearestMinutes(request) ==
  LET speed == estimateAverageSpeed(request.practiceType)
  IN CHOOSE m \in 0..6000 :
       /\ 100 * speed * m - 50 * speed <= 6 * request.distanceKm
       /\ 6 * request.distanceKm < 100 * speed * m + 50 * speed

\* the text of a number of minutes
DurationText(m) ==
  IF m < 60 THEN DigitsOf(m) \o Txt_min
  ELSE IF m % 60 = 0 THEN DigitsOf(m \div 60) \o Txt_h00
  ELSE DigitsOf(m \div 60) \o <<104>> \o PaddedDigits(m % 60, 2)

\* C14 (duration): with m the hours times 60 rounded to the nearest minute,
\* the duration reads "<h>h<mm>" with two digits of minutes when hours and
\* minutes are both non-zero, "<h>h00" when the minutes are zero, "<m> min"
\* under one hour; the summary has the line of the duration unless the hours
\* are zero or negative, and then it has none.  90 minutes read "1h30", 45
\* read "45 min" and 120 read "2h00".
C14_Duration ==
  /\ formatDuration(1500000) = Some(Txt_1h30)
  /\ formatDuration(750000) = Some(Txt_45_min)
  /\ formatDuration(2000000) = Some(Txt_2h00)
  /\ download.pc = "replied" =>
       IF download.request.distanceKm <= 0
       THEN /\ download.formattedDuration = None
            /\ ~Includes(download.message, Txt_Duration_line)
       ELSE LET text == DurationText(NearestMinutes(download.request))
            IN /\ download.formattedDuration = Some(text)
               /\ Includes(download.message,
                           <<10, 10>> \o Txt_Duration_line \o text \o <<10, 10>>)

\* a summary whose duration has hours and one digit of minutes
C14_Witness ==
  /\ download.pc = "replied"
  /\ download.formattedDuration = Some(Txt_1h05)
  /\ Includes(download.message, Txt_Duration_line \o Txt_1h05)

\* a summary without the line of the duration
C14_WitnessOmitted ==
  /\ download.pc = "replied"
  /\ download.request.distanceKm <= 0
  /\ ~Includes(download.message, Txt_Duration_line)

(***************************************************************************)
(* Properties of the timing and of the phases                              *)
(***************************************************************************)
\* total is max(600 s, distanceKm / max(5, speed) * 3600), in whole
\* milliseconds
IsTotalDuration(total, request) ==
  LET speed == Max(5, estimateAverageSpeed(request.practiceType))
      metres == request.distanceKm
  IN IF 3600 * metres < 600000 * speed THEN total = 600000
     ELSE speed * total <= 3600 * metres /\ 3600 * metres < speed * (total + 1)

\* C15 (timing): point i of a track has the offset (totalDuration / count) * i,
\* where totalDuration is max(600 s, distanceKm / max(5, speed) * 3600); the
\* offsets start at 0 and grow strictly with the index, in the loop and
\* after the closure, which leaves the offset of the last point as it was
\* computed.
C15_Timing ==
  \A i \in Invocations :
    run[i].pc \in {"loop", "returned"} =>
      LET points == run[i].points
          total == run[i].totalDurationSeconds
      IN /\ IsTotalDuration(total, run[i].request)
         /\ \A k \in 1..Len(points) :
              points[k].timeOffset = (total \div run[i].pointCount) * (k - 1)
         /\ \A k \in 1..(Len(points) - 1) :
              points[k].timeOffset < points[k + 1].timeOffset

\* a track longer than ten minutes has been closed: its last point is at
\* the position of the first and later than every other
C15_Witness ==
  /\ Returned(1)
  /\ run[1].totalDurationSeconds > 600000
  /\ LET points == run[1].points
         n == Len(points)
     IN /\ points[n].lat = points[1].lat
        /\ points[n].lon = points[1].lon
        /\ points[n].ele = points[1].ele
        /\ points[n].timeOffset > points[n - 1].timeOffset

\* a track of the shortest duration, ten minutes, has been closed
C15_WitnessFloor ==
  /\ Returned(1)
  /\ run[1].totalDurationSeconds = 600000
  /\ run[1].points[Len(run[1].points)].timeOffset > 0

\* n is x rounded to the nearest whole number, x given in tenths
IsNearest(n, tenths) == 10 * n - 5 <= tenths /\ tenths < 10 * n + 5

\* C16 (phase split): for every point count from 12 to 240 the ascent has
\* max(3, round(0.4 * count)) points, the plateau max(2, round(0.2 * count)),
\* the descent the count less the two and at least 3; the three make up
\* the count, and every index of the loop is in exactly one phase.
C16_PhaseSplit ==
  run[1].pc \in {"loop", "returned"} =>
    LET count == run[1].pointCount
        ascent == run[1].ascentPoints
        plateau == run[1].plateauPoints
        descent == run[1].descentPoints
        InAscent(index) == 0 <= index /\ index < ascent
        InPlateau(index) == ascent <= index /\ index < ascent + plateau
        InDescent(index) == ascent + plateau <= index /\ index < ascent + plateau + descent
    IN /\ count \in PhaseCounts
       /\ ascent >= 3 /\ IsNearest(ascent, 4 * count)
       /\ plateau >= 2 /\ IsNearest(plateau, 2 * count)
       /\ descent = count - ascent - plateau
       /\ descent >= 3
       /\ ascent + plateau + descent = count
       /\ run[1].index \in 0..count
       /\ \A index \in 0..(count - 1) :
            /\ InAscent(index) \/ InPlateau(index) \/ InDescent(index)
            /\ ~(InAscent(index) /\ InPlateau(index))
            /\ ~(InAscent(index) /\ InDescent(index))
            /\ ~(InPlateau(index) /\ InDescent(index))

\* the loop has reached the last index of a track of 13 points (5 of
\* ascent, 3 of plateau, 5 of descent), in the descent
C16_Witness ==
  /\ run[1].pc = "loop"
  /\ run[1].pointCount = 13
  /\ run[1].ascentPoints = 5 /\ run[1].plateauPoints = 3 /\ run[1].descentPoints = 5
  /\ run[1].index = 12

(***************************************************************************)
(* Properties of the loop over the fragments                               *)
(***************************************************************************)
\* the position of the first colon or equals sign of a fragment, 0 when it
\* has none
FirstSeparator(segment) ==
  IF \E k \in 1..Len(segment) : segment[k] \in {58, 61}
  THEN CHOOSE k \in 1..Len(segment) :
         /\ segment[k] \in {58, 61}
         /\ \A h \in 1..(k - 1) : segment[h] \notin {58, 61}
  ELSE 0

\* the text before the first separator, trimmed and in lower case
TextBefore(segment) == ToLower(Trim(SubSeq(segment, 1, FirstSeparator(segment) - 1)))

\* all the text after the first separator, trimmed
TextAfter(segment) == Trim(SubSeq(segment, FirstSeparator(segment) + 1, Len(segment)))

\* the fragment the loop has just read
LastRead == parser.segments[parser.index - 1]

JustRead == parser.pc = "loop" /\ parser.index > 1

Txt_Gate_3_North == <<71, 97, 116, 101, 32, 51, 58, 32, 78, 111, 114, 116, 104>>  \* "Gate 3: North"

\* C17 (one split): a fragment is split once, at its first colon or equals
\* sign, and its value is all the text after it, later separators included:
\* a fragment whose text before the separator names the address, or the
\* practice, leaves all the text after the separator in that field, and
\* "address: Gate 3: North" leaves "Gate 3: North"; a fragment with no
\* separator is read whole.
C17_SplitOnce ==
  JustRead =>
    /\ (FirstSeparator(LastRead) > 0 /\ TextAfter(LastRead) # <<>>) =>
         IF TestAny(TextBefore(LastRead), AddressLabels)
         THEN parser.fields.address = Some(TextAfter(LastRead))
         ELSE TestAny(TextBefore(LastRead), PracticeLabels)
                => parser.fields.practiceType = Some(TextAfter(LastRead))
    /\ LastRead = Txt_g_gate => parser.fields.address = Some(Txt_Gate_3_North)
    /\ (FirstSeparator(LastRead) = 0 /\ parser.index = 2)
         => \/ parser.fields.address = Some(LastRead)
            \/ parser.fields.distanceKm = parseDistance(LastRead)

\* C18 (decimal comma): a distance written with a decimal comma is read as
\* that decimal number: the fragment "45,5 km" parses to 45.5, and a command
\* whose distance is "45,5 km", the three other fields being valid, yields a
\* request with the distance 45.5 and the elevation the command gives.
C18_DecimalComma ==
  /\ parseDistance(Txt_45_5_km) = Some(45500)
  /\ \A address \in {Txt_Lyon, Txt_Downing}, practice \in CommandPractices :
       \A elevation \in {e \in CommandElevations : e.value >= 0} :
         (parser.pc = "done"
          /\ parser.rawMessage
               = Command(Txt_gpx_command, address, Txt_45_5_km, elevation.text, practice))
           => /\ parser.result # None
              /\ parser.result[1].distanceKm = 45500
              /\ parser.result[1].elevationGain = elevation.value

FieldNames == {"address", "distanceKm", "elevationGain", "practiceType"}

\* the label of a fragment as the families see it: the text before the
\* first separator when there is text after it, else nothing
ReadLabel(segment) ==
  IF FirstSeparator(segment) > 0 /\ TextAfter(segment) # <<>>
  THEN TextBefore(segment) ELSE <<>>

\* the family of a label, the first that matches in the order address,
\* practice, distance, elevation, and "none" when none does
FamilyOf(label) ==
  IF TestAny(label, AddressLabels) THEN "address"
  ELSE IF TestAny(label, PracticeLabels) THEN "practiceType"
  ELSE IF TestAny(label, DistanceLabels) THEN "distanceKm"
  ELSE IF TestAny(label, ElevationLabels) THEN "elevationGain"
  ELSE "none"

\* the loop reads the fragment at parser.index in this step
ReadsFragment ==
  /\ parser.pc = "loop"
  /\ parser.index <= Len(parser.segments)
  /\ parser'.pc = "loop"
  /\ parser'.index = parser.index + 1

\* the value of the fragment the step reads, as the loop holds it
ReadValue == ValueOf(LabelAndValue(parser.segments[parser.index]))

\* the fields a step changes
Changed == {name \in FieldNames : parser'.fields[name] # parser.fields[name]}

\* C19 (unlabelled fragments): a fragment with no recognized label fills at
\* most one field and never one that is set; it fills the distance when
\* that is unset and the value parses as a distance, else the elevation
\* when that is unset and the value parses as an elevation, else the
\* address when unset, else the practice when unset, and else it is dropped
\* and the fields stay as they are.
C19_Unlabelled ==
  [][(ReadsFragment
      /\ FamilyOf(ReadLabel(parser.segments[parser.index])) = "none"
      /\ ReadValue # <<>>)
     => LET f == parser.fields
            g == parser'.fields
        IN /\ Cardinality(Changed) <= 1
           /\ \A name \in Changed : f[name] = None
           /\ IF f.distanceKm = None /\ parseDistance(ReadValue) # None
              THEN Changed = {"distanceKm"} /\ g.distanceKm = parseDistance(ReadValue)
              ELSE IF f.elevationGain = None /\ parseElevation(ReadValue) # None
              THEN Changed = {"elevationGain"}
                   /\ g.elevationGain = parseElevation(ReadValue)
              ELSE IF f.address = None
              THEN Changed = {"address"} /\ g.address = Some(ReadValue)
              ELSE IF f.practiceType = None
              THEN Changed = {"practiceType"} /\ g.practiceType = Some(ReadValue)
              ELSE Changed = {}]_vars

\* the third fragment with no label has been read after two that took the
\* address and the practice, and was dropped
C19_Witness ==
  /\ parser.pc = "loop"
  /\ parser.index = 4
  /\ parser.segments = <<Txt_Lyon, Txt_Lyon, Txt_Lyon>>
  /\ parser.fields = [address |-> Some(Txt_Lyon), distanceKm |-> None,
                      elevationGain |-> None, practiceType |-> Some(Txt_Lyon)]

\* C20 (label precedence): the label of a fragment is classed by the first
\* family that matches it in the order address, practice, distance,
\* elevation; the fragment sets the field of that family, to its value or to
\* the number its value parses to, and no other field, even when its label
\* matches a later family too.
C20_LabelPrecedence ==
  [][(ReadsFragment
      /\ FamilyOf(ReadLabel(parser.segments[parser.index])) # "none"
      /\ ReadValue # <<>>)
     => LET family == FamilyOf(ReadLabel(parser.segments[parser.index]))
            g == parser'.fields
        IN /\ Changed \subseteq {family}
           /\ family = "address" => g.address = Some(ReadValue)
           /\ family = "practiceType" => g.practiceType = Some(ReadValue)
           /\ (family = "distanceKm" /\ parseDistance(ReadValue) # None)
                => g.distanceKm = parseDistance(ReadValue)
           /\ (family = "elevationGain" /\ parseElevation(ReadValue) # None)
                => g.elevationGain = parseElevation(ReadValue)]_vars

\* "40 km"
Txt_40_km == <<52, 48, 32, 107, 109>>

\* "type de distance: 40 km", whose label names the practice and the
\* distance, has been read first: the practice holds "40 km", the distance
\* nothing
C20_Witness ==
  /\ parser.pc = "loop"
  /\ parser.index = 2
  /\ parser.segments[1] = Txt_g_type_distance
  /\ parser.fields = [address |-> None, distanceKm |-> None,
                      elevationGain |-> None, practiceType |-> Some(Txt_40_km)]

(***************************************************************************)
(* Properties of the speed table                                           *)
(***************************************************************************)
\* the text holds one of the keywords, in either case
HoldsKeyword(text, keywords) == \E keyword \in keywords : Includes(ToLower(text), keyword)

\* the speed of the first family, in the order given, that the text holds a
\* keyword of, and 20 when it holds none
SpeedBy(text, roadWords, gravelWords, mtbWords, commuteWords) ==
  IF HoldsKeyword(text, roadWords) THEN 28
  ELSE IF HoldsKeyword(text, gravelWords) THEN 22
  ELSE IF HoldsKeyword(text, mtbWords) THEN 16
  ELSE IF HoldsKeyword(text, commuteWords) THEN 18
  ELSE 20

\* the summary and the track of the state are those of this speed: the
\* duration of the summary is that of distanceKm / speed hours, and the total
\* duration of the track that of distanceKm / speed * 3600 seconds
BothUse(speed) ==
  /\ download.pc = "replied" =>
       download.formattedDuration
         = formatDuration((download.request.distanceKm * 1000) \div speed)
  /\ run[1].pc \in {"loop", "returned"} =>
       /\ speed * run[1].totalDurationSeconds <= 3600 * run[1].request.distanceKm
       /\ 3600 * run[1].request.distanceKm < speed * (run[1].totalDurationSeconds + 1)

\* C21 (speed table), as the code has it: 28 for a practice text with road,
\* route, endurance or training, 22 with gravel or bikepacking, 16 with mtb,
\* vtt, trail or all-mountain, 18 with commute, city, urban or velo taf, the
\* first family in that order, and 20 for a text with none of these words;
\* the summary and the track of a request are computed with that speed.
C21_SpeedTableWithRouteAndVeloTaf ==
  BothUse(SpeedBy(download.request.practiceType,
                  {Txt_road, Txt_route, Txt_endurance, Txt_training},
                  {Txt_gravel, Txt_bikepacking},
                  {Txt_mtb, Txt_vtt, Txt_trail, Txt_all_mountain},
                  {Txt_commute, Txt_city, Txt_urban, Txt_velo_taf}))

\* C21 (speed table), as it is stated: 28 for a practice text with road,
\* endurance or training, 22 with gravel or bikepacking, 16 with mtb, vtt,
\* trail or all-mountain, 18 with commute, city or urban, the first family in
\* that order, and 20 for every text with none of these words; the summary
\* and the track of a request are computed with that speed.
C21_SpeedTable ==
  BothUse(SpeedBy(download.request.practiceType,
                  {Txt_road, Txt_endurance, Txt_training},
                  {Txt_gravel, Txt_bikepacking},
                  {Txt_mtb, Txt_vtt, Txt_trail, Txt_all_mountain},
                  {Txt_commute, Txt_city, Txt_urban}))

Txt_26_min == <<50, 54, 32, 109, 105, 110>>  \* "26 min"

\* "Gravel Road", with keywords of two families, has its summary (26 minutes
\* for 12 km, at 28 km/h) and its track
C21_Witness ==
  /\ download.pc = "replied"
  /\ download.request.practiceType = Txt_Gravel_Road
  /\ download.formattedDuration = Some(Txt_26_min)
  /\ Returned(1)
  /\ run[1].request = download.request

(***************************************************************************)
(* Properties of the generator                                             *)
(***************************************************************************)
\* x wrapped to a signed 16-bit value
Wrap16(x) == ((x + 32768) % 65536) - 32768

\* the signed 32-bit value of 31 * acc + code: with acc = high * 65536 + low,
\* 31 * acc + code = (31 * high + carry) * 65536 + rest
Fold31(acc, code) ==
  LET low == acc % 65536
      high == (acc - low) \div 65536
      sum == 31 * low + code
  IN Wrap16(31 * high + (sum \div 65536)) * 65536 + (sum % 65536)

\* the signed 32-bit value of state + 0x6d2b79f5 (1831565813)
AddIncrement(state) ==
  IF state <= 2147483647 - 1831565813 THEN state + 1831565813
  ELSE (state - 2147483647) + (1831565813 - 2147483647) - 2

\* C22 (generator arithmetic): every character of the seed string takes the
\* accumulator acc to acc * 31 + code wrapped to a signed 32-bit value, and
\* the stream starts from the fold of the whole string; every draw adds
\* 0x6d2b79f5 to the state with 32-bit wraparound; the state stays within
\* [-2^31, 2^31 - 1] and every value drawn is in [0, 1).
C22_RngArithmetic ==
  [][/\ (run[1].pc = "seeding" /\ run'[1].pc = "seeding")
        => ToInt32(run'[1].seed)
             = Fold31(ToInt32(run[1].seed), run[1].seedSource[run[1].index + 1])
     /\ (run[1].pc = "seeding" /\ run'[1].pc = "drawing")
        => run'[1].seed = createDeterministicRng(run[1].seedSource)
     /\ (run[1].pc = "drawing" /\ run'[1].pc = "drawing")
        => /\ ToInt32(run'[1].seed) = AddIncrement(ToInt32(run[1].seed))
           /\ run'[1].value # None
           /\ run'[1].value[1] >= 0 /\ run'[1].value[1] < 1024
     /\ run'[1].seed[1] \in 0..65535 /\ run'[1].seed[2] \in 0..65535
     /\ ToInt32(run'[1].seed) >= -2147483647 - 1
     /\ ToInt32(run'[1].seed) <= 2147483647]_vars

\* a draw has just wrapped the state around (it is below 0x6d2b79f5 - 2^31,
\* so the state before it was above 2^31 - 1 - 0x6d2b79f5) and has given a
\* value of one half or more
C22_Witness ==
  /\ run[1].pc = "drawing"
  /\ run[1].draws >= 1
  /\ ToInt32(run[1].seed) < 1831565813 - 2147483647 - 1
  /\ run[1].value[1] >= 512

\* the fold has wrapped the accumulator to a negative value
C22_WitnessFold ==
  /\ run[1].pc = "seeding"
  /\ run[1].index > 0
  /\ ToInt32(run[1].seed) < 0

(***************************************************************************)
(* Properties of the chat page                                             *)
(***************************************************************************)
\* the roles and the contents of a list of messages
Shown(messages) ==
  [k \in 1..Len(messages) |-> [role |-> messages[k].role, content |-> messages[k].content]]

\* the step ends a send that went to the chat service
EndsChatSend == page.isLoading /\ page.pending # None /\ page'.pending = None

\* C23 (failed send rolled back): a send that went to the chat service ends
\* with isLoading false; when it fails the error text is set and the user
\* message of that send is removed, so that the list is the list before the
\* send; when it succeeds the reply is appended right after the user message.
C23_FailedSendRolledBack ==
  [][EndsChatSend =>
       LET sent == page.pending[1].userMessage
           before == SubSeq(page.messages, 1, Len(page.messages) - 1)
       IN /\ ~page'.isLoading
          /\ page.messages = Append(before, sent)
          /\ \/ /\ page'.error # None /\ page'.error[1] # <<>>
                /\ page'.messages = before
                /\ \A k \in 1..Len(page'.messages) : page'.messages[k].id # sent.id
             \/ /\ page'.error = None
                /\ Len(page'.messages) = Len(page.messages) + 1
                /\ SubSeq(page'.messages, 1, Len(page.messages)) = page.messages
                /\ page'.messages[Len(page'.messages)].role = "assistant"
                /\ page'.messages[Len(page'.messages)].content \in
                     {reply.content : reply \in ChatReplies}]_vars

\* a send to the chat service has failed after an earlier one was answered:
\* the error is set and the list holds the earlier exchange only
C23_Witness ==
  /\ page.error # None
  /\ ~page.isLoading
  /\ page.sends = 2
  /\ Shown(page.messages) = <<[role |-> "user", content |-> Txt_Hello],
                               [role |-> "assistant", content |-> Txt_Hi_there]>>

\* the step is a send
StartsSend == ~page.isLoading /\ page'.sends = page.sends + 1

\* C24 (local answer): a message that parseGpxRequest resolves into a request
\* is answered on the page: the user message and then the summary of the
\* request are appended, nothing is posted to the chat service and isLoading
\* stays false; a message that the parser does not resolve, and no other, is
\* posted to the chat service.
C24_AnsweredLocally ==
  [][StartsSend =>
       LET sent == page'.messages[Len(page.messages) + 1]
           gpxRequest == parseGpxRequest(sent.content)
       IN /\ sent.role = "user"
          /\ SubSeq(page'.messages, 1, Len(page.messages)) = page.messages
          /\ IF gpxRequest # None
             THEN /\ Len(page'.messages) = Len(page.messages) + 2
                  /\ page'.messages[Len(page'.messages)].role = "assistant"
                  /\ page'.messages[Len(page'.messages)].content
                       = buildGpxReply(gpxRequest[1]).message
                  /\ page'.requests = page.requests
                  /\ ~page'.isLoading
                  /\ page'.pending = None
             ELSE /\ Len(page'.messages) = Len(page.messages) + 1
                  /\ Len(page'.requests) = Len(page.requests) + 1
                  /\ LET posted == page'.requests[Len(page'.requests)]
                     IN posted[Len(posted)] = [role |-> "user", content |-> sent.content]
                  /\ page'.isLoading]_vars

\* a command has been answered on the page after a message that went to the
\* chat service: four messages, one request posted
C24_Witness ==
  /\ Len(page.messages) = 4
  /\ page.messages[1].content = Txt_Hello
  /\ page.messages[3].content
       = Command(Txt_gpx_command, Txt_Lyon, Txt_60_km, Txt_800_m, Txt_road)
  /\ page.messages[4].role = "assistant"
  /\ Includes(page.messages[4].content, Txt_Download_link)
  /\ Len(page.requests) = 1
  /\ ~page.isLoading

(***************************************************************************)
(* Properties of POST /api/chat                                            *)
(***************************************************************************)
\* a response that is an error, and one that is a reply
IsError(response) ==
  /\ response.status \in {400, 429, 500, 502}
  /\ "error" \in DOMAIN response
  /\ "reply" \notin DOMAIN response

IsReply(response) ==
  /\ "reply" \in DOMAIN response
  /\ "error" \notin DOMAIN response

\* ride parameters with a non-empty start_address, a distance_km above 0, an
\* elevation_gain_m of 0 or more and a non-empty practice_type
Acceptable(value) ==
  /\ value.start_address.type = "string"
  /\ \E i \in 1..Len(value.start_address.text) : ~IsSpace(value.start_address.text[i])
  /\ coerceNumber(value.distance_km) # None
  /\ coerceNumber(value.distance_km)[1] > 0
  /\ coerceNumber(value.elevation_gain_m) # None
  /\ coerceNumber(value.elevation_gain_m)[1] >= 0
  /\ value.practice_type.type = "string"
  /\ \E i \in 1..Len(value.practice_type.text) : ~IsSpace(value.practice_type.text[i])

\* the arguments of the tool call of a message, when it calls
\* generate_gpx_route with the JSON text of an object
ArgumentsOfToolCall(message) ==
  IF message.tool_calls = <<>> THEN None
  ELSE IF message.tool_calls[1].name # "generate_gpx_route" THEN None
  ELSE ParsedArguments(message.tool_calls[1].arguments)

\* the tool call of a message is valid
ValidToolCall(message) ==
  /\ ArgumentsOfToolCall(message) # None
  /\ Acceptable(ArgumentsOfToolCall(message)[1])

\* the content of a message is a gpx directive
GpxDirective(message) ==
  /\ message.content # None
  /\ message.content[1] # Blank
  /\ "action" \in DOMAIN parseAssistantDirective(message.content[1])
  /\ parseAssistantDirective(message.content[1]).action = "gpx"

\* the ride parameters a message carries: those of its tool call and those
\* of its directive
RideParameters(message) ==
  {ArgumentsOfToolCall(message)[1] : none \in {None} \ {ArgumentsOfToolCall(message)}}
    \cup IF GpxDirective(message)
         THEN {parseAssistantDirective(message.content[1]).content.parameters}
         ELSE {}

\* the summary of a reply: its content, after the message of the directive
\* and an empty line when the directive has one
SummaryOf(message, reply) ==
  LET preface == parseAssistantDirective(message.content[1]).content.message
  IN IF preface = None THEN reply.content
     ELSE SubSeq(reply.content, Len(preface[1]) + 3, Len(reply.content))

\* POST has responded to a message of the model
Replied ==
  /\ post.pc = "responded"
  /\ "upstream" \in DOMAIN post
  /\ post.upstream.outcome = "response"
  /\ post.upstream.ok
  /\ post.upstream.message # None

C25_WitnessRejected ==
  /\ Replied
  /\ ValidToolCall(post.upstream.message[1])
  /\ GpxDirective(post.upstream.message[1])
  /\ IsError(post.response)
  /\ post.response.status = 400

====
